---- MODULE Spec2Model ----
(***************************************************************************)
(* Model of the multi-source acquisition layer (DataFetcherManager), the   *)
(* quote merger and the stock filter pipeline (StockFilter).               *)
(*                                                                         *)
(* Several specifications share the variables below; each one exercises    *)
(* one component and leaves the other components' variables untouched.     *)
(***************************************************************************)
EXTENDS Integers, Sequences, FiniteSets, TLC

VARIABLES
    fetchers,   \* DataFetcherManager._fetchers: sequence of [name, priority]
    registered, \* the adapters in the order in which they were handed over
    args,       \* DataFetcherManager.args: the configuration object's attributes
    op,         \* the manager operation in progress, "idle" when none is
    us,         \* get_realtime_quote: whether stock_code is a US code
    pos,        \* 1-based position of the failover loop in the list it walks
    errors,     \* the operation's local `errors` list: <<name, reason>> entries
    calls,      \* sources visited by the operation so far: [source, outcome]
    primary_quote,       \* get_realtime_quote: local primary_quote (Optional)
    supplement_attempts, \* get_realtime_quote: local supplement_attempts
    ret         \* how the operation ended: none / return / raise

managerVars ==
    <<fetchers, registered, args, op, us, pos, errors, calls, primary_quote,
      supplement_attempts, ret>>

VARIABLES
    merge_primary,    \* _merge_quote_fields: the primary quote object
    merge_secondary,  \* _merge_quote_fields: the secondary quote object
    merge_filled,     \* _merge_quote_fields: the returned list (Optional)
    merge_calls       \* number of calls made with these two objects

mergeVars == <<merge_primary, merge_secondary, merge_filled, merge_calls>>

VARIABLES
    stock_data,         \* the snapshot handed to the three sub-filters
    trend_result,       \* outcome of _single_trend_filter (Optional)
    risk_result,        \* outcome of _single_risk_filter (Optional)
    additional_result,  \* outcome of _single_additional_filter (Optional)
    bars,               \* the cleaned daily series handed to _calculate_metrics
    metrics_ret         \* how the call on the series ended

snapshotVars ==
    <<stock_data, trend_result, risk_result, additional_result, bars,
      metrics_ret>>

VARIABLES
    quote_table,  \* the full-market table the bulk source would deliver
    base_ret,     \* how base_info_filter ended
    pipeline,     \* filter_stocks: the stage it is at ("idle" before the call)
    pipeline_ret, \* how filter_stocks ended
    stage_outputs \* filter_stocks: what the base and income stages returned

baseVars == <<quote_table, base_ret, pipeline, pipeline_ret, stage_outputs>>

VARIABLES
    stage,             \* the running stage: "idle", "income" or "history"
    stock_list,        \* the stage's input list of stock codes
    self_max_workers,  \* StockFilter.max_workers
    args_max_workers,  \* StockFilter.args.max_workers
    tasks,             \* per submitted future: its state and its outcome
    completed,         \* futures in completion order, as as_completed yields
    collected,         \* all_income_data / filted_stocks built by the loop
    stage_ret          \* how the stage ended

stageVars ==
    <<stage, stock_list, self_max_workers, args_max_workers, tasks, completed,
      collected, stage_ret>>

VARIABLES
    circuit,        \* circuit breaker: per source key its state record
    clock,          \* time.time() as the circuit breaker reads it
    breaker_calls,  \* breaker API calls made by the running manager operation
    worker_pc       \* per pool worker: where it stands with the breaker

breakerVars == <<circuit, clock, breaker_calls, worker_pc>>

VARIABLES
    cache,          \* SearchService._cache in insertion order: [key, ts, response]
    cache_clock,    \* time.time() as the search cache reads it
    cache_ret,      \* the last cache operation: its arguments, locals and result
    cache_threads,  \* per worker thread: where it stands inside a cache method
    providers,      \* SearchService._providers: [name, api_keys] in list order
    service         \* the SearchService call in progress: its locals and result

cacheVars ==
    <<cache, cache_clock, cache_ret, cache_threads, providers, service>>

VARIABLES
    api_keys,     \* BaseSearchProvider._api_keys
    key_cycle,    \* position of itertools.cycle(api_keys): index of the next key
    key_errors,   \* BaseSearchProvider._key_errors
    key_inflight, \* keys handed to searches whose outcome is not yet recorded
    key_ret,      \* the last key operation and what it returned
    key_usage,    \* BaseSearchProvider._key_usage
    key_threads,  \* per worker thread: where it stands inside search()
    key_log,      \* per key the outcomes recorded so far, and the resets
    search_count, \* search() calls made one after the other
    search_ret    \* the last such call: its key, what _do_search did, its result

keyVars ==
    <<api_keys, key_cycle, key_errors, key_inflight, key_ret, key_usage,
      key_threads, key_log, search_count, search_ret>>

vars ==
    <<managerVars, mergeVars, snapshotVars, baseVars, stageVars, breakerVars,
      cacheVars, keyVars>>

\* Optional values: None, or a value wrapped as a one-element sequence.
None == <<>>
Some(x) == <<x>>
Get(o) == o[1]

(***************************************************************************)
(* Bounds                                                                  *)
(***************************************************************************)
MaxFetchers == 3    \* length of the fetcher list handed to the constructor
MaxRegistered == 5  \* add_fetcher is not called on a list of this length

(***************************************************************************)
(* Adapters                                                                *)
(***************************************************************************)
\* Default adapters and the priorities documented for them.
FetcherPriority ==
    [EfinanceFetcher |-> 0, AkshareFetcher |-> 1, PytdxFetcher |-> 2,
     TushareFetcher |-> 2, BaostockFetcher |-> 3, YfinanceFetcher |-> 4]

FetcherNames == DOMAIN FetcherPriority

Fetcher(n) == [name |-> n, priority |-> FetcherPriority[n]]

\* Outcomes of a subclass's _fetch_raw_data followed by _normalize_data.
\*   rows          at least 61 usable bars
\*   short_rows    usable bars, fewer than 61
\*   rows_all_null rows whose close or volume is null
\*   none          None or an empty frame
\*   other values  the exception the provider raised
RawExceptions == {"Timeout", "RateLimitError", "Exception"}
RawOutcomes == {"rows", "short_rows", "rows_all_null", "none"} \cup RawExceptions

\* Variant of the insertion that puts an adapter before those of its own
\* priority.
RECURSIVE InsertByPriority_BeforeTies(_, _)
InsertByPriority_BeforeTies(s, f) ==
    IF s = <<>> THEN <<f>>
    ELSE IF s[Len(s)].priority < f.priority THEN Append(s, f)
    ELSE Append(InsertByPriority_BeforeTies(SubSeq(s, 1, Len(s) - 1), f), s[Len(s)])

\* list.sort(key=priority) / sorted(): stable insertion by priority.
RECURSIVE InsertByPriority(_, _)
InsertByPriority(s, f) ==
    IF s = <<>> THEN <<f>>
    ELSE IF s[Len(s)].priority <= f.priority THEN Append(s, f)
    ELSE Append(InsertByPriority(SubSeq(s, 1, Len(s) - 1), f), s[Len(s)])

RECURSIVE SortByPriority(_)
SortByPriority(s) ==
    IF s = <<>> THEN <<>>
    ELSE InsertByPriority(SortByPriority(SubSeq(s, 1, Len(s) - 1)), s[Len(s)])

\* Lists of distinct adapters a caller may hand to the constructor.
FetcherLists ==
    {s \in UNION {[1..n -> FetcherNames] : n \in 1..MaxFetchers} :
        \A i, j \in DOMAIN s : i # j => s[i] # s[j]}

\* DataFetcherManager.__init__ with an explicit list.
ManagerInit(names) == SortByPriority([i \in DOMAIN names |-> Fetcher(names[i])])

\* DataFetcherManager._init_default_fetchers: the six default adapters.
DefaultFetcherNames ==
    <<"EfinanceFetcher", "AkshareFetcher", "TushareFetcher",
      "PytdxFetcher", "BaostockFetcher", "YfinanceFetcher">>
DefaultFetchers == ManagerInit(DefaultFetcherNames)

\* The manager right after DataFetcherManager(args, fetchers) with the
\* adapters `names`, or after the default construction.
Constructed(names) ==
    /\ fetchers = ManagerInit(names)
    /\ registered = [i \in DOMAIN names |-> Fetcher(names[i])]

\* Adapters a caller may add later: the six classes, and TushareFetcher with
\* the priority 0 it takes when a token is configured.
AddableFetchers ==
    {Fetcher(n) : n \in FetcherNames}
        \cup {[name |-> "TushareFetcher", priority |-> 0]}

\* DataFetcherManager.add_fetcher: append, then list.sort(key=priority).
add_fetcher(s, f) == SortByPriority(Append(s, f))

Registered(n) == \E i \in DOMAIN fetchers : fetchers[i].name = n

(***************************************************************************)
(* Configuration                                                           *)
(***************************************************************************)
\* utils.config.FetcherArgs() with its defaults; realtime_source_priority is
\* kept as the list that split(',') and strip().lower() make of the string.
FetcherArgs ==
    [tushare_token |-> None,
     tushare_rate_limit_per_minute |-> 80,
     realtime_source_priority |->
        <<"tencent", "akshare_sina", "efinance", "akshare_em">>]

\* Other priority orders a configuration may carry.
SourcePriorities ==
    {FetcherArgs.realtime_source_priority,
     <<"efinance", "akshare_em", "tushare">>}

\* getattr(self.args, attr): AttributeError when the object lacks attr.
HasAttr(a, attr) == attr \in DOMAIN a

(***************************************************************************)
(* BaseFetcher entry points: what the manager sees from one adapter call   *)
(***************************************************************************)
\* BaseFetcher.get_daily_data: a null/empty raw frame and every exception
\* become DataFetchError; rows that cleaning drops entirely come back as an
\* empty frame, without an exception.
BaseGetDailyData(raw) ==
    CASE raw \in {"rows", "short_rows"} -> [kind |-> "data"]
      [] raw = "rows_all_null" -> [kind |-> "empty"]
      [] OTHER -> [kind |-> "raise", exc |-> "DataFetchError", reason |-> raw]

\* BaseFetcher.get_daily_data_with_fn with calculate_fn = _calculate_metrics:
\* the metrics index the 61st bar from the end, so a shorter (or empty)
\* cleaned series raises inside the try block and is wrapped as DataFetchError.
BaseGetDailyDataWithFn(raw) ==
    CASE raw = "rows" -> [kind |-> "data"]
      [] OTHER -> [kind |-> "raise", exc |-> "DataFetchError", reason |-> raw]

\* `except Exception` in the manager's failover loops.
CatchesException(exc) == TRUE

NoRet == [kind |-> "none"]
Return(v) == [kind |-> "return", value |-> v]
Raise(e, msg) == [kind |-> "raise", exc |-> e, message |-> msg]

Visit(src, outcome) == [source |-> src, outcome |-> outcome]

(***************************************************************************)
(* DataFetcherManager.get_daily_data / get_daily_analyzed_data             *)
(***************************************************************************)
StartOpWith(o, r) ==
    /\ op = "idle"
    /\ op' = o
    /\ pos' = 1
    /\ errors' = <<>>
    /\ calls' = <<>>
    /\ primary_quote' = None
    /\ supplement_attempts' = 0
    /\ ret' = r
    /\ UNCHANGED <<fetchers, registered, args>>
    /\ UNCHANGED <<mergeVars, snapshotVars, baseVars, stageVars,
                   breakerVars, cacheVars, keyVars>>

StartOp(o) == StartOpWith(o, NoRet)

\* One iteration of `for fetcher in self._fetchers`.
DailyIteration(o, raw, outcome, withName) ==
    LET f == fetchers[pos] IN
    /\ op = o
    /\ ret.kind = "none"
    /\ pos <= Len(fetchers)
    /\ calls' = Append(calls, Visit(f.name, raw))
    /\ CASE outcome.kind = "data" ->
              /\ ret' = Return(Some([data |-> f.name,
                            provider |-> IF withName THEN Some(f.name) ELSE None]))
              /\ UNCHANGED <<pos, errors>>
         [] outcome.kind = "empty" ->
              /\ pos' = pos + 1
              /\ UNCHANGED <<ret, errors>>
         [] outcome.kind = "raise" /\ CatchesException(outcome.exc) ->
              /\ errors' = Append(errors, <<f.name, outcome.reason>>)
              /\ pos' = pos + 1
              /\ UNCHANGED ret
         [] OTHER ->
              /\ ret' = Raise(outcome.exc, <<>>)
              /\ UNCHANGED <<pos, errors>>
    /\ UNCHANGED <<fetchers, registered, args, op, us, primary_quote, supplement_attempts>>
    /\ UNCHANGED <<mergeVars, snapshotVars, baseVars, stageVars,
                   breakerVars, cacheVars, keyVars>>

\* After the loop: raise DataFetchError(error_summary).
DailyExhausted(o) ==
    /\ op = o
    /\ ret.kind = "none"
    /\ pos > Len(fetchers)
    /\ ret' = Raise("DataFetchError", errors)
    /\ UNCHANGED <<fetchers, registered, args, op, us, pos, errors, calls, primary_quote,
                   supplement_attempts>>
    /\ UNCHANGED <<mergeVars, snapshotVars, baseVars, stageVars,
                   breakerVars, cacheVars, keyVars>>

get_daily_data_call == StartOp("get_daily_data") /\ UNCHANGED us

get_daily_data_try ==
    \E raw \in RawOutcomes :
        DailyIteration("get_daily_data", raw, BaseGetDailyData(raw), TRUE)

get_daily_data_exhausted == DailyExhausted("get_daily_data")

get_daily_analyzed_data_call == StartOp("get_daily_analyzed_data") /\ UNCHANGED us

get_daily_analyzed_data_try ==
    \E raw \in RawOutcomes :
        DailyIteration("get_daily_analyzed_data", raw,
                       BaseGetDailyDataWithFn(raw), FALSE)

get_daily_analyzed_data_exhausted == DailyExhausted("get_daily_analyzed_data")

(***************************************************************************)
(* Operations that walk args.realtime_source_priority                      *)
(***************************************************************************)
\* What an optional adapter method (get_income_data, get_all_realtime_quote,
\* get_realtime_quote) can do when the manager reaches it:
\*   unsupported   hasattr(fetcher, method) is false, nothing is called
\*   null          the call returns None
\*   data          the call returns a result
\*   other values  the exception the call raised
AdapterExceptions == {"Timeout", "RateLimitError", "Exception"}
BulkOutcomes == {"unsupported", "null", "data"} \cup AdapterExceptions

\* The adapter that get_income_data / get_all_realtime_quote / get_industry_info
\* address for a source name; None for a name none of the branches matches.
BulkSourceFetcher(src) ==
    CASE src = "efinance" -> Some("EfinanceFetcher")
      [] src = "akshare_em" -> Some("AkshareFetcher")
      [] src = "tushare" -> Some("TushareFetcher")
      [] OTHER -> None

\* The adapter that get_realtime_quote addresses for a source name.
RealtimeSourceFetcher(src) ==
    CASE src = "efinance" -> Some("EfinanceFetcher")
      [] src \in {"akshare_em", "akshare_sina", "tencent", "akshare_qq"} ->
            Some("AkshareFetcher")
      [] src = "tushare" -> Some("TushareFetcher")
      [] OTHER -> None

\* The source has an adapter in self._fetchers.
Addressable(target) == target # None /\ Registered(Get(target))

\* One iteration of `for source in source_priority` in get_income_data and
\* get_all_realtime_quote.
BulkIteration(o) ==
    LET src == args.realtime_source_priority[pos]
        target == BulkSourceFetcher(src)
    IN
    /\ op = o
    /\ ret.kind = "none"
    /\ pos <= Len(args.realtime_source_priority)
    /\ \E outcome \in IF Addressable(target) THEN BulkOutcomes ELSE {"skipped"} :
        /\ calls' = Append(calls, Visit(src, outcome))
        /\ CASE outcome = "data" ->
                  /\ ret' = Return(Some([data |-> src]))
                  /\ UNCHANGED <<pos, errors>>
             [] outcome \in {"skipped", "unsupported", "null"} ->
                  /\ pos' = pos + 1
                  /\ UNCHANGED <<ret, errors>>
             [] outcome \in AdapterExceptions /\ CatchesException(outcome) ->
                  /\ errors' = Append(errors, <<src, outcome>>)
                  /\ pos' = pos + 1
                  /\ UNCHANGED ret
             [] OTHER ->
                  /\ ret' = Raise(outcome, <<>>)
                  /\ UNCHANGED <<pos, errors>>
    /\ UNCHANGED <<fetchers, registered, args, op, us, primary_quote, supplement_attempts>>
    /\ UNCHANGED <<mergeVars, snapshotVars, baseVars, stageVars,
                   breakerVars, cacheVars, keyVars>>

\* After the loop: return None.
BulkExhausted(o) ==
    /\ op = o
    /\ ret.kind = "none"
    /\ pos > Len(args.realtime_source_priority)
    /\ ret' = Return(None)
    /\ UNCHANGED <<fetchers, registered, args, op, us, pos, errors, calls, primary_quote,
                   supplement_attempts>>
    /\ UNCHANGED <<mergeVars, snapshotVars, baseVars, stageVars,
                   breakerVars, cacheVars, keyVars>>

get_income_data_call == StartOp("get_income_data") /\ UNCHANGED us
get_income_data_try == BulkIteration("get_income_data")
get_income_data_exhausted == BulkExhausted("get_income_data")

get_all_realtime_quote_call == StartOp("get_all_realtime_quote") /\ UNCHANGED us
get_all_realtime_quote_try == BulkIteration("get_all_realtime_quote")
get_all_realtime_quote_exhausted == BulkExhausted("get_all_realtime_quote")

(***************************************************************************)
(* Quotes and the quote merger                                             *)
(***************************************************************************)
\* DataFetcherManager._SUPPLEMENT_FIELDS, in its order of importance.
SUPPLEMENT_FIELDS ==
    <<"volume_ratio", "turnover_rate", "pe_ratio", "pb_ratio", "total_mv",
      "circ_mv", "amplitude">>

SupplementFieldSet == {SUPPLEMENT_FIELDS[i] : i \in DOMAIN SUPPLEMENT_FIELDS}

\* Fields a quote must carry to be usable.
BasicFields == {"price", "name"}

QuoteFields == BasicFields \cup SupplementFieldSet

\* UnifiedRealtimeQuote.has_basic_data()
has_basic_data(q) == \A f \in BasicFields : q[f] # None

\* DataFetcherManager._quote_needs_supplement
quote_needs_supplement(q) ==
    \E i \in DOMAIN SUPPLEMENT_FIELDS : q[SUPPLEMENT_FIELDS[i]] = None

\* Variant of the loop that copies every non-None secondary field, whether
\* or not primary already has a value.
RECURSIVE MergeFrom_Overwrite(_, _, _, _)
MergeFrom_Overwrite(i, primary, secondary, filled) ==
    IF i > Len(SUPPLEMENT_FIELDS) THEN [primary |-> primary, filled |-> filled]
    ELSE LET f == SUPPLEMENT_FIELDS[i] IN
         IF secondary[f] # None
         THEN MergeFrom_Overwrite(i + 1, [primary EXCEPT ![f] = secondary[f]],
                                  secondary, Append(filled, f))
         ELSE MergeFrom_Overwrite(i + 1, primary, secondary, filled)

\* Variant of the loop that reports a field as filled but does not store the
\* value in primary.
RECURSIVE MergeFrom_NoStore(_, _, _, _)
MergeFrom_NoStore(i, primary, secondary, filled) ==
    IF i > Len(SUPPLEMENT_FIELDS) THEN [primary |-> primary, filled |-> filled]
    ELSE LET f == SUPPLEMENT_FIELDS[i] IN
         IF primary[f] = None /\ secondary[f] # None
         THEN MergeFrom_NoStore(i + 1, primary, secondary, Append(filled, f))
         ELSE MergeFrom_NoStore(i + 1, primary, secondary, filled)

\* The loop of _merge_quote_fields from the i-th supplement field on.
RECURSIVE MergeFrom(_, _, _, _)
MergeFrom(i, primary, secondary, filled) ==
    IF i > Len(SUPPLEMENT_FIELDS) THEN [primary |-> primary, filled |-> filled]
    ELSE LET f == SUPPLEMENT_FIELDS[i] IN
         IF primary[f] = None /\ secondary[f] # None
         THEN MergeFrom(i + 1, [primary EXCEPT ![f] = secondary[f]], secondary,
                        Append(filled, f))
         ELSE MergeFrom(i + 1, primary, secondary, filled)

\* DataFetcherManager._merge_quote_fields: primary after the call and the
\* returned list of filled field names.
merge_quote_fields(primary, secondary) == MergeFrom(1, primary, secondary, <<>>)

\* A quote whose fields in `shape` carry the value v and whose others are None.
Quote(shape, v) == [f \in QuoteFields |-> IF f \in shape THEN Some(v) ELSE None]

\* Quotes of the kinds the providers deliver: complete, basic data only,
\* without a name, without the two volume fields, with only the volume fields.
QuoteShapes ==
    {QuoteFields,
     BasicFields,
     QuoteFields \ {"name"},
     QuoteFields \ {"volume_ratio", "turnover_rate"},
     BasicFields \cup {"volume_ratio", "turnover_rate"}}

RealtimeOutcomes ==
    {[kind |-> k, shape |-> {}] : k \in {"unsupported", "null"} \cup AdapterExceptions}
        \cup {[kind |-> "quote", shape |-> sh] : sh \in QuoteShapes}

(***************************************************************************)
(* DataFetcherManager.get_realtime_quote                                   *)
(***************************************************************************)
\* Entry: the enable switch is read from self.args before anything else.
get_realtime_quote_call ==
    /\ us' \in BOOLEAN
    /\ StartOpWith("get_realtime_quote",
            IF ~HasAttr(args, "enable_realtime_quote")
               THEN Raise("AttributeError", <<>>)
            ELSE IF ~args.enable_realtime_quote THEN Return(None)
            ELSE NoRet)

\* US codes: only YfinanceFetcher is asked, once.
get_realtime_quote_us ==
    /\ op = "get_realtime_quote"
    /\ ret.kind = "none"
    /\ us
    /\ \E outcome \in IF Registered("YfinanceFetcher")
                         THEN RealtimeOutcomes
                         ELSE {[kind |-> "skipped", shape |-> {}]} :
        /\ calls' = Append(calls, Visit("yfinance", outcome.kind))
        /\ ret' = IF outcome.kind = "quote"
                     THEN Return(Some(Quote(outcome.shape, 1)))
                     ELSE Return(None)
    /\ UNCHANGED <<fetchers, registered, args, op, us, pos, errors, primary_quote,
                   supplement_attempts>>
    /\ UNCHANGED <<mergeVars, snapshotVars, baseVars, stageVars,
                   breakerVars, cacheVars, keyVars>>

\* One iteration of `for source in source_priority`; a `break` returns
\* primary_quote at once.
get_realtime_quote_try ==
    LET src == args.realtime_source_priority[pos]
        target == RealtimeSourceFetcher(src)
    IN
    /\ op = "get_realtime_quote"
    /\ ret.kind = "none"
    /\ ~us
    /\ pos <= Len(args.realtime_source_priority)
    /\ \E outcome \in IF Addressable(target)
                         THEN RealtimeOutcomes
                         ELSE {[kind |-> "skipped", shape |-> {}]} :
        LET quote == Quote(outcome.shape, pos) IN
        /\ calls' = Append(calls, Visit(src, outcome.kind))
        /\ CASE outcome.kind = "quote" /\ has_basic_data(quote)
                    /\ primary_quote = None ->
                  /\ primary_quote' = Some(quote)
                  /\ supplement_attempts' = 0
                  /\ IF ~quote_needs_supplement(quote)
                        THEN ret' = Return(Some(quote)) /\ pos' = pos
                        ELSE ret' = ret /\ pos' = pos + 1
                  /\ UNCHANGED errors
             [] outcome.kind = "quote" /\ has_basic_data(quote)
                    /\ primary_quote # None ->
                  /\ supplement_attempts' = supplement_attempts + 1
                  /\ IF supplement_attempts + 1 > 1
                        THEN /\ primary_quote' = primary_quote
                             /\ ret' = Return(primary_quote)
                             /\ pos' = pos
                        ELSE LET merged == merge_quote_fields(Get(primary_quote), quote) IN
                             /\ primary_quote' = Some(merged.primary)
                             /\ IF ~quote_needs_supplement(merged.primary)
                                   THEN ret' = Return(Some(merged.primary)) /\ pos' = pos
                                   ELSE ret' = ret /\ pos' = pos + 1
                  /\ UNCHANGED errors
             [] outcome.kind \in AdapterExceptions /\ CatchesException(outcome.kind) ->
                  /\ errors' = Append(errors, <<src, outcome.kind>>)
                  /\ pos' = pos + 1
                  /\ UNCHANGED <<ret, primary_quote, supplement_attempts>>
             [] outcome.kind \in AdapterExceptions /\ ~CatchesException(outcome.kind) ->
                  /\ ret' = Raise(outcome.kind, <<>>)
                  /\ UNCHANGED <<pos, errors, primary_quote, supplement_attempts>>
             [] OTHER ->
                  /\ pos' = pos + 1
                  /\ UNCHANGED <<ret, errors, primary_quote, supplement_attempts>>
    /\ UNCHANGED <<fetchers, registered, args, op, us>>
    /\ UNCHANGED <<mergeVars, snapshotVars, baseVars, stageVars,
                   breakerVars, cacheVars, keyVars>>

\* After the loop: return primary_quote, which is None when no source delivered.
get_realtime_quote_exhausted ==
    /\ op = "get_realtime_quote"
    /\ ret.kind = "none"
    /\ ~us
    /\ pos > Len(args.realtime_source_priority)
    /\ ret' = Return(primary_quote)
    /\ UNCHANGED <<fetchers, registered, args, op, us, pos, errors, calls, primary_quote,
                   supplement_attempts>>
    /\ UNCHANGED <<mergeVars, snapshotVars, baseVars, stageVars,
                   breakerVars, cacheVars, keyVars>>

\* The operation has returned or raised; the manager is ready for the next call.
Finish ==
    /\ op # "idle"
    /\ ret.kind # "none"
    /\ op' = "idle"
    /\ pos' = 1
    /\ errors' = <<>>
    /\ calls' = <<>>
    /\ primary_quote' = None
    /\ supplement_attempts' = 0
    /\ us' = FALSE
    /\ ret' = NoRet
    /\ UNCHANGED <<fetchers, registered, args>>
    /\ UNCHANGED <<mergeVars, snapshotVars, baseVars, stageVars,
                   breakerVars, cacheVars, keyVars>>

(***************************************************************************)
(* _merge_quote_fields as an operation on two quote objects                *)
(***************************************************************************)
\* Field values of the quotes handed to the merger: primary fields are None
\* or 0, secondary fields None or 1, so a copied value is recognisable.
\* Calls made with the same pair of objects.
MaxMergeCalls == 2

MergePrimaries == [QuoteFields -> {None, Some(0)}]
MergeSecondaries == [QuoteFields -> {None, Some(1)}]

\* primary is mutated in place, the list is returned, secondary is only read.
\* The caller may call again with the same two objects.
merge_quote_fields_call ==
    LET merged == merge_quote_fields(merge_primary, merge_secondary) IN
    /\ merge_calls < MaxMergeCalls
    /\ merge_calls' = merge_calls + 1
    /\ merge_primary' = merged.primary
    /\ merge_filled' = Some(merged.filled)
    /\ UNCHANGED merge_secondary
    /\ UNCHANGED <<managerVars, snapshotVars, baseVars, stageVars,
                   breakerVars, cacheVars, keyVars>>

IdleMerge ==
    /\ merge_primary = Quote({}, 0)
    /\ merge_secondary = Quote({}, 0)
    /\ merge_filled = None
    /\ merge_calls = 0

(***************************************************************************)
(* StockFilter thresholds (stock_filter.py, module level)                  *)
(*   amounts and market values in units of 10^7                            *)
(*   percentages, ratios and %B in hundredths                              *)
(***************************************************************************)
BASE_DAILY_AMOUNT == 20             \* 200000000
BASE_MARKET_VALUE == 500            \* 5000000000
BASE_INCOME_INCREASE == 10          \* 0.1

MA20_AMOUNT == 30                   \* 300000000
MA20_AMOUNT_FACTOR == 130           \* 1.3
EMA200_SLOP == -5                   \* -0.05
GLODEN_CROSS_DAYS == 1
CROSS_COUNT_10D == 1
MACD_HISTOGRAM == 0

EMA200_DEVIATION_RATE_HIGH == 2500  \* 25
EMA200_DEVIATION_RATE_LOW == 1500   \* 15
INCOME_INCREASE_20D == 2500         \* 25
INCOME_INCREASE_60D == 5000         \* 50
ATR_RATE == 400                     \* 4.0
BOLL_PCT_B == 90                    \* 0.9

RISK_SCORE_THRESHOLD == 1

(***************************************************************************)
(* The snapshot of _calculate_metrics                                      *)
(***************************************************************************)
\* The keys _calculate_metrics stores in its result.
MetricKeys ==
    {"amount", "amount_ma20", "close", "ema5", "ema10", "ema50", "ema200",
     "ema200_slope", "gloden_cross_days", "cross_count_10d", "macd_histogram",
     "ema200_deviation_rate", "20d_inc", "60d_inc", "atr_rate",
     "bb_percent_b1", "bb_percent_b2"}

\* result['ema200_deviation_rate'] = (ema200 - close) / ema200 * 100
DeviationRate(ema200, close) == ((ema200 - close) * 10000) \div ema200

Abs(x) == IF x < 0 THEN -x ELSE x

\* dict lookup: stock_data[key] raises KeyError for a key that was not stored.
HasKey(d, key) == key \in DOMAIN d

ReturnValue(v) == [kind |-> "return", value |-> v]
RaiseError(e) == [kind |-> "raise", exc |-> e]

(***************************************************************************)
(* StockFilter sub-filters                                                 *)
(***************************************************************************)
\* StockFilter._single_trend_filter: the checks in their order; the fourth
\* one reads the key 'ema200_slop'.
single_trend_filter(d) ==
    IF d["amount_ma20"] < MA20_AMOUNT THEN ReturnValue(FALSE)
    ELSE IF d["amount"] * 100 < d["amount_ma20"] * MA20_AMOUNT_FACTOR
        THEN ReturnValue(FALSE)
    ELSE IF d["ema200"] < d["close"] THEN ReturnValue(FALSE)
    ELSE IF ~HasKey(d, "ema200_slop") THEN RaiseError("KeyError")
    ELSE IF d["ema200_slop"] < EMA200_SLOP THEN ReturnValue(FALSE)
    ELSE IF d["gloden_cross_days"] < GLODEN_CROSS_DAYS THEN ReturnValue(FALSE)
    ELSE IF d["cross_count_10d"] > CROSS_COUNT_10D THEN ReturnValue(FALSE)
    ELSE IF d["macd_histogram"] < MACD_HISTOGRAM THEN ReturnValue(FALSE)
    ELSE ReturnValue(TRUE)

\* Variant of the score whose volatility flag is raised at atr_rate = 4.0 too.
RiskScore_AtrInclusive(d) ==
    LET s1 == IF Abs(d["ema200_deviation_rate"]) > EMA200_DEVIATION_RATE_LOW
                 THEN 1 ELSE 0
        s2 == IF d["20d_inc"] > INCOME_INCREASE_20D THEN s1 + 1 ELSE s1
        s3 == IF d["60d_inc"] > INCOME_INCREASE_60D THEN s2 + 1 ELSE s2
        s4 == IF d["atr_rate"] >= ATR_RATE THEN s3 + 1 ELSE s3
        s5 == IF d["bb_percent_b1"] > BOLL_PCT_B /\ d["bb_percent_b2"] > BOLL_PCT_B
                 THEN s4 + 1 ELSE s4
    IN s5

\* The risk_score that _single_risk_filter accumulates after the first test.
RiskScore(d) ==
    LET s1 == IF Abs(d["ema200_deviation_rate"]) > EMA200_DEVIATION_RATE_LOW
                 THEN 1 ELSE 0
        s2 == IF d["20d_inc"] > INCOME_INCREASE_20D THEN s1 + 1 ELSE s1
        s3 == IF d["60d_inc"] > INCOME_INCREASE_60D THEN s2 + 1 ELSE s2
        s4 == IF d["atr_rate"] > ATR_RATE THEN s3 + 1 ELSE s3
        s5 == IF d["bb_percent_b1"] > BOLL_PCT_B /\ d["bb_percent_b2"] > BOLL_PCT_B
                 THEN s4 + 1 ELSE s4
    IN s5

\* StockFilter._single_risk_filter
single_risk_filter(d) ==
    IF Abs(d["ema200_deviation_rate"]) > EMA200_DEVIATION_RATE_HIGH
       THEN ReturnValue(FALSE)
       ELSE ReturnValue(RiskScore(d) <= RISK_SCORE_THRESHOLD)

\* StockFilter._single_additional_filter
single_additional_filter(d) ==
    IF d["ema50"] < d["ema200"] THEN ReturnValue(FALSE) ELSE ReturnValue(TRUE)

\* StockFilter._history_info_filter on an obtained snapshot: the three
\* sub-filters are all evaluated, then combined with `and`.
history_info_filter_task(d) ==
    LET trend_result_ == single_trend_filter(d)
        risk_result_ == single_risk_filter(d)
        additional_result_ == single_additional_filter(d)
    IN
    IF trend_result_.kind = "raise" THEN trend_result_
    ELSE ReturnValue(trend_result_.value /\ risk_result_.value
                        /\ additional_result_.value)

(***************************************************************************)
(* Snapshots handed to the sub-filters                                     *)
(***************************************************************************)
\* A snapshot as _calculate_metrics stores it, from the series' figures.
Snapshot(t) ==
    [k \in MetricKeys |->
        CASE k = "amount" -> t.amount
          [] k = "amount_ma20" -> t.amount_ma20
          [] k = "close" -> t.close
          [] k = "ema5" -> t.close
          [] k = "ema10" -> t.close
          [] k = "ema50" -> t.ema50
          [] k = "ema200" -> t.ema200
          [] k = "ema200_slope" -> t.slope
          [] k = "gloden_cross_days" -> t.golden
          [] k = "cross_count_10d" -> t.crosses
          [] k = "macd_histogram" -> t.macd
          [] k = "ema200_deviation_rate" -> DeviationRate(t.ema200, t.close)
          [] k = "20d_inc" -> t.inc20
          [] k = "60d_inc" -> t.inc60
          [] k = "atr_rate" -> t.atr
          [] k = "bb_percent_b1" -> t.b1
          [] k = "bb_percent_b2" -> t.b2]

\* Figures that sit on the passing side of every threshold, with the price
\* one percent above ema200.
GoodFigures ==
    [amount |-> 39, amount_ma20 |-> 30, close |-> 10100, ema50 |-> 10000,
     ema200 |-> 10000, slope |-> -5, golden |-> 1, crosses |-> 1, macd |-> 0,
     inc20 |-> 2500, inc60 |-> 5000, atr |-> 400, b1 |-> 90, b2 |-> 91]

\* Figures around the thresholds of the trend conditions.
TrendFigures ==
    {[GoodFigures EXCEPT !.amount_ma20 = a, !.amount = b, !.close = c,
                         !.slope = sl, !.golden = g, !.crosses = x, !.macd = m] :
        a \in {29, 30}, b \in {38, 39}, c \in {9900, 10000, 10100},
        sl \in {-6, -5}, g \in {-1, 0, 1, 7}, x \in {1, 2}, m \in {-1, 0}}

\* Figures around the thresholds of the risk conditions.
RiskFigures ==
    {[GoodFigures EXCEPT !.close = c, !.inc20 = i20, !.inc60 = i60, !.atr = at,
                         !.b1 = p1, !.b2 = p2] :
        c \in {7499, 7500, 8000, 8499, 8500, 10000, 11500, 11501, 12000,
               12500, 12501},
        i20 \in {1000, 2500, 2501}, i60 \in {1000, 5000, 5001},
        at \in {200, 400, 500}, p1 \in {50, 90, 91}, p2 \in {90, 91}}

\* Figures around the additional condition.
AdditionalFigures ==
    {[GoodFigures EXCEPT !.ema50 = e, !.close = c] :
        e \in {9999, 10000, 10001}, c \in {10000, 10100}}

Snapshots == {Snapshot(t) : t \in TrendFigures \cup RiskFigures \cup AdditionalFigures}

single_trend_filter_call ==
    /\ trend_result = None
    /\ trend_result' = Some(single_trend_filter(stock_data))
    /\ UNCHANGED <<stock_data, risk_result, additional_result, bars, metrics_ret>>
    /\ UNCHANGED <<managerVars, mergeVars, baseVars, stageVars,
                   breakerVars, cacheVars, keyVars>>

single_risk_filter_call ==
    /\ risk_result = None
    /\ risk_result' = Some(single_risk_filter(stock_data))
    /\ UNCHANGED <<stock_data, trend_result, additional_result, bars, metrics_ret>>
    /\ UNCHANGED <<managerVars, mergeVars, baseVars, stageVars,
                   breakerVars, cacheVars, keyVars>>

single_additional_filter_call ==
    /\ additional_result = None
    /\ additional_result' = Some(single_additional_filter(stock_data))
    /\ UNCHANGED <<stock_data, trend_result, risk_result, bars, metrics_ret>>
    /\ UNCHANGED <<managerVars, mergeVars, baseVars, stageVars,
                   breakerVars, cacheVars, keyVars>>

IdleSnapshot ==
    /\ stock_data = Snapshot(GoodFigures)
    /\ trend_result = None
    /\ risk_result = None
    /\ additional_result = None
    /\ bars = <<>>
    /\ metrics_ret = NoRet

(***************************************************************************)
(* _calculate_metrics on a cleaned daily series                            *)
(*                                                                         *)
(* A bar carries its close and the values pandas' ewm gives for EMA5 and   *)
(* EMA10 at that bar.  Window lengths are scaled so that short series      *)
(* reach every branch: 2 bars stand for 20, 4 for 60 and 3 for 10.         *)
(***************************************************************************)
INC_20D_BARS == 2
INC_60D_BARS == 4
CROSS_WINDOW == 3
\* Longest series handed to the metrics.
MaxBars == 9

\* Bars of a series: EMA5 below, on and above EMA10.
BarKinds ==
    {[close |-> 10, ema5 |-> 1, ema10 |-> 2],
     [close |-> 10, ema5 |-> 2, ema10 |-> 2],
     [close |-> 20, ema5 |-> 3, ema10 |-> 2]}

\* Series.iloc[k] for a negative k: the k-th element from the end.
ILoc(s, k) == s[Len(s) + k + 1]
ILocInBounds(s, k) == Len(s) + k + 1 >= 1

\* Series.shift(1): every value moves one bar later, the first bar gets NaN.
Shift1(s) == [i \in DOMAIN s |-> IF i = 1 THEN None ELSE Some(s[i - 1])]

\* Comparisons with a shifted value: a comparison with NaN is False.
ShiftedLe(a, b) == a # None /\ b # None /\ Get(a) <= Get(b)
ShiftedGe(a, b) == a # None /\ b # None /\ Get(a) >= Get(b)

Ema5(df) == [i \in DOMAIN df |-> df[i].ema5]
Ema10(df) == [i \in DOMAIN df |-> df[i].ema10]

\* (ema5 > ema10) & (ema5.shift(1) <= ema10.shift(1)), as a boolean series.
is_golden_cross(df) ==
    [i \in DOMAIN df |->
        /\ Ema5(df)[i] > Ema10(df)[i]
        /\ ShiftedLe(Shift1(Ema5(df))[i], Shift1(Ema10(df))[i])]

\* (ema5 < ema10) & (ema5.shift(1) >= ema10.shift(1))
is_death_cross(df) ==
    [i \in DOMAIN df |->
        /\ Ema5(df)[i] < Ema10(df)[i]
        /\ ShiftedGe(Shift1(Ema5(df))[i], Shift1(Ema10(df))[i])]

\* df[mask].index.tolist(): the 0-based labels of the bars the mask selects.
RECURSIVE MaskIndex(_, _)
MaskIndex(mask, n) ==
    IF n = 0 THEN <<>>
    ELSE IF mask[n] THEN Append(MaskIndex(mask, n - 1), n - 1)
    ELSE MaskIndex(mask, n - 1)

\* Variant that measures from the oldest crossing instead of the latest.
gloden_cross_days_Oldest(df) ==
    LET cross_days == MaskIndex(is_golden_cross(df), Len(df)) IN
    IF Len(cross_days) > 0 THEN Len(df) - 1 - cross_days[1] ELSE -1

\* Lines 89-93: bars since the latest golden cross, -1 without one.
gloden_cross_days(df) ==
    LET cross_days == MaskIndex(is_golden_cross(df), Len(df)) IN
    IF Len(cross_days) > 0 THEN Len(df) - 1 - cross_days[Len(cross_days)] ELSE -1

\* Lines 96-97: crossings among the last bars of the window, or among all
\* bars of a shorter series.
RECURSIVE CrossSum(_, _, _)
CrossSum(df, from, to) ==
    IF from > to THEN 0
    ELSE (IF is_golden_cross(df)[from] \/ is_death_cross(df)[from] THEN 1 ELSE 0)
         + CrossSum(df, from + 1, to)

\* Variant that counts the crossings of the whole series.
cross_count_AllBars(df) == CrossSum(df, 1, Len(df))

\* is_cross.iloc[-10:].sum() if len(df) >= 10 else is_cross.sum()
cross_count(df) ==
    IF Len(df) >= CROSS_WINDOW
       THEN CrossSum(df, Len(df) - CROSS_WINDOW + 1, Len(df))
       ELSE CrossSum(df, 1, Len(df))

\* ((current_price - price_ago) / price_ago) * 100, in hundredths of a percent.
Increase(current_price, price_ago) ==
    ((current_price - price_ago) * 10000) \div price_ago

\* Variant that reads the earlier closes one bar too late.
PastClose_OneLate(df, n) == ILoc(df, -n).close

\* df["close"].iloc[-21] and df["close"].iloc[-61]: the close n bars before
\* the last one.
PastClose(df, n) == ILoc(df, -(n + 1)).close

\* _calculate_metrics: the indicator set, or the IndexError of the first
\* iloc that reaches before the start of the series (lines 74, 86, 112, 113).
calculate_metrics(df) ==
    IF \/ ~ILocInBounds(df, -1)
       \/ ~ILocInBounds(df, -2)
       \/ ~ILocInBounds(df, -(INC_20D_BARS + 1))
       \/ ~ILocInBounds(df, -(INC_60D_BARS + 1))
       THEN RaiseError("IndexError")
       ELSE ReturnValue(
              [close |-> ILoc(df, -1).close,
               ema5 |-> ILoc(df, -1).ema5,
               ema10 |-> ILoc(df, -1).ema10,
               gloden_cross_days |-> gloden_cross_days(df),
               cross_count_10d |-> cross_count(df),
               inc_20d |-> Increase(ILoc(df, -1).close, PastClose(df, INC_20D_BARS)),
               inc_60d |-> Increase(ILoc(df, -1).close, PastClose(df, INC_60D_BARS))])

\* BaseFetcher.get_daily_data_with_fn from the cleaned series on (lines
\* 272-279): the result of calculate_fn, any exception as DataFetchError.
get_daily_data_with_fn(df) ==
    LET result == calculate_metrics(df) IN
    IF result.kind = "raise" THEN RaiseError("DataFetchError") ELSE result

MetricsCall(fn, result) ==
    /\ metrics_ret = NoRet
    /\ metrics_ret' = [fn |-> fn, kind |-> result.kind, result |-> result]
    /\ UNCHANGED <<stock_data, trend_result, risk_result, additional_result, bars>>
    /\ UNCHANGED <<managerVars, mergeVars, baseVars, stageVars,
                   breakerVars, cacheVars, keyVars>>

calculate_metrics_call == MetricsCall("_calculate_metrics", calculate_metrics(bars))

get_daily_data_with_fn_call ==
    MetricsCall("get_daily_data_with_fn", get_daily_data_with_fn(bars))

(***************************************************************************)
(* StockFilter.base_info_filter                                            *)
(***************************************************************************)
MaxRows == 2    \* rows of the full-market quote table

\* Stock codes, one per table row or candidate position.
StockCodes == <<"000001", "300251", "600519", "688147", "920808">>

\* Names as character sequences.
StockNames ==
    {<<"S", "T", "b">>, <<"*", "S", "T">>, <<"S", "b", "T">>, <<"T", "S">>,
     <<"s", "t", "b">>, <<"b">>}

\* Series.str.contains(pat) for a literal pattern.
StrContains(name, pat) ==
    \E i \in 1..(Len(name) - Len(pat) + 1) :
        SubSeq(name, i, i + Len(pat) - 1) = pat

RowFigures ==
    [name : StockNames,
     amount : {BASE_DAILY_AMOUNT, BASE_DAILY_AMOUNT + 1},
     total_mv : {BASE_MARKET_VALUE, BASE_MARKET_VALUE + 1}]

QuoteTables ==
    UNION {{[i \in 1..n |-> [code |-> StockCodes[i], name |-> v[i].name,
                             amount |-> v[i].amount, total_mv |-> v[i].total_mv]] :
                v \in [1..n -> RowFigures]} : n \in 0..MaxRows}

\* The three row selections of base_info_filter.
NotST(r) == ~StrContains(r.name, <<"S", "T">>)
AmountAbove_Inclusive(r) == r.amount >= BASE_DAILY_AMOUNT
AmountAbove(r) == r.amount > BASE_DAILY_AMOUNT
MarketValueAbove(r) == r.total_mv > BASE_MARKET_VALUE

CodesOf(rows) == [i \in DOMAIN rows |-> rows[i].code]

\* df_all is None when get_all_realtime_quote found no source; subscripting
\* it then raises TypeError.
base_info_filter(df_all) ==
    IF df_all = None THEN RaiseError("TypeError")
    ELSE ReturnValue(CodesOf(
            SelectSeq(SelectSeq(SelectSeq(Get(df_all), NotST), AmountAbove),
                      MarketValueAbove)))

base_info_filter_call ==
    /\ base_ret = NoRet
    /\ base_ret' = base_info_filter(quote_table)
    /\ UNCHANGED <<quote_table, pipeline, pipeline_ret, stage_outputs>>
    /\ UNCHANGED <<managerVars, mergeVars, snapshotVars, stageVars,
                   breakerVars, cacheVars, keyVars>>

\* filter_stocks has not been called.
IdlePipeline ==
    /\ pipeline = "idle"
    /\ pipeline_ret = NoRet
    /\ stage_outputs = [base |-> None, income |-> None]

IdleBase ==
    /\ quote_table = None
    /\ base_ret = NoRet
    /\ IdlePipeline

(***************************************************************************)
(* StockFilter.income_filter / history_info_filter on the worker pool      *)
(***************************************************************************)
MaxStocks == 3     \* candidates handed to a stage
MaxWorkers == 2    \* largest configured worker count

\* Candidate lists: the first n stock codes.
StockLists == {[i \in 1..n |-> StockCodes[i]] : n \in 0..MaxStocks}

\* The record an adapter's get_income_data delivers for the requested code.
IncomeRecord(code, growth) == [code |-> code, income_inc |-> growth]

\* Income growth figures around BASE_INCOME_INCREASE.
IncomeGrowths ==
    {BASE_INCOME_INCREASE - 1, BASE_INCOME_INCREASE, BASE_INCOME_INCREASE + 1}

\* Snapshots a history task may obtain: passing every stated threshold, at
\* and below ema200, failing the risk test, failing the additional test.
StageSnapshots ==
    {Snapshot(GoodFigures),
     Snapshot([GoodFigures EXCEPT !.close = 10000]),
     Snapshot([GoodFigures EXCEPT !.close = 9900]),
     Snapshot([GoodFigures EXCEPT !.close = 12501]),
     Snapshot([GoodFigures EXCEPT !.ema50 = 9999])}

\* A submitted task; order is its rank among the finished tasks, 0 before.
PendingTask ==
    [state |-> "pending", fetched |-> None, result |-> NoRet, order |-> 0]

Running == {i \in DOMAIN tasks : tasks[i].state = "running"}
Finished == {i \in DOMAIN tasks : tasks[i].state \in {"done", "collected"}}

\* executor.submit for every code, then the as_completed loop starts.
StageCall(name) ==
    /\ stage = "idle"
    /\ stage' = name
    /\ tasks' = [i \in DOMAIN stock_list |-> PendingTask]
    /\ completed' = <<>>
    /\ collected' = <<>>
    /\ stage_ret' = NoRet
    /\ UNCHANGED <<stock_list, self_max_workers, args_max_workers>>
    /\ UNCHANGED <<managerVars, mergeVars, snapshotVars, baseVars,
                   breakerVars, cacheVars, keyVars>>

income_filter_call == StageCall("income")

history_info_filter_call == StageCall("history")

\* A worker of ThreadPoolExecutor(max_workers=self.args.max_workers) takes the
\* oldest queued task.
TaskStart ==
    /\ stage \in {"income", "history"}
    /\ stage_ret = NoRet
    /\ Cardinality(Running) < args_max_workers
    /\ \E i \in DOMAIN tasks :
        /\ tasks[i].state = "pending"
        /\ \A j \in DOMAIN tasks : j < i => tasks[j].state # "pending"
        /\ tasks' = [tasks EXCEPT ![i].state = "running"]
    /\ UNCHANGED <<stage, stock_list, self_max_workers, args_max_workers,
                   completed, collected, stage_ret>>
    /\ UNCHANGED <<managerVars, mergeVars, snapshotVars, baseVars,
                   breakerVars, cacheVars, keyVars>>

TaskDone(i, fetched, result) ==
    /\ tasks[i].state = "running"
    /\ tasks' = [tasks EXCEPT ![i] =
                    [state |-> "done", fetched |-> fetched, result |-> result,
                     order |-> Cardinality(Finished) + 1]]
    /\ completed' = Append(completed, i)
    /\ UNCHANGED <<stage, stock_list, self_max_workers, args_max_workers,
                   collected, stage_ret>>
    /\ UNCHANGED <<managerVars, mergeVars, snapshotVars, baseVars,
                   breakerVars, cacheVars, keyVars>>

\* fetcher_manager.get_income_data(code): a record, or None when no source
\* delivered; it never raises.
IncomeTaskFinish ==
    /\ stage = "income"
    /\ \E i \in DOMAIN tasks :
        \E fetched \in {None} \cup
                {Some(IncomeRecord(stock_list[i], g)) : g \in IncomeGrowths} :
            TaskDone(i, fetched, ReturnValue(fetched))

\* _history_info_filter(code): get_daily_analyzed_data returns a snapshot or
\* raises DataFetchError; the sub-filters then run on the snapshot.
HistoryTaskFinish ==
    /\ stage = "history"
    /\ \E i \in DOMAIN tasks :
        \E fetched \in {None} \cup {Some(d) : d \in StageSnapshots} :
            TaskDone(i, fetched,
                     IF fetched = None THEN RaiseError("DataFetchError")
                     ELSE history_info_filter_task(Get(fetched)))

\* One round of `for idx, future in enumerate(as_completed(...))`.
Collect ==
    /\ stage \in {"income", "history"}
    /\ stage_ret = NoRet
    /\ completed # <<>>
    /\ LET i == Head(completed)
           result == tasks[i].result
       IN
       /\ completed' = Tail(completed)
       /\ tasks' = [tasks EXCEPT ![i].state = "collected"]
       /\ collected' =
            IF result.kind = "raise" THEN collected
            ELSE IF stage = "income"
                 THEN IF result.value # None
                         THEN Append(collected, Get(result.value))
                         ELSE collected
            ELSE IF result.value THEN Append(collected, stock_list[i])
                 ELSE collected
    /\ UNCHANGED <<stage, stock_list, self_max_workers, args_max_workers,
                   stage_ret>>
    /\ UNCHANGED <<managerVars, mergeVars, snapshotVars, baseVars,
                   breakerVars, cacheVars, keyVars>>

\* Variant in which a stage returns without waiting for its tasks.
AllCollected_NoWait == TRUE

\* Leaving the `with ThreadPoolExecutor` block after the as_completed loop:
\* every future has completed and has been handled.
AllCollected == \A i \in DOMAIN tasks : tasks[i].state = "collected"

IncomeKept(r) == r.income_inc >= BASE_INCOME_INCREASE

\* After the pool: pd.DataFrame(all_income_data) has no 'income_inc' column
\* when the list is empty, and selecting it raises KeyError.
income_filter_return ==
    /\ stage = "income"
    /\ stage_ret = NoRet
    /\ AllCollected
    /\ stage_ret' = IF collected = <<>> THEN RaiseError("KeyError")
                    ELSE ReturnValue(CodesOf(SelectSeq(collected, IncomeKept)))
    /\ UNCHANGED <<stage, stock_list, self_max_workers, args_max_workers, tasks,
                   completed, collected>>
    /\ UNCHANGED <<managerVars, mergeVars, snapshotVars, baseVars,
                   breakerVars, cacheVars, keyVars>>

history_info_filter_return ==
    /\ stage = "history"
    /\ stage_ret = NoRet
    /\ AllCollected
    /\ stage_ret' = ReturnValue(collected)
    /\ UNCHANGED <<stage, stock_list, self_max_workers, args_max_workers, tasks,
                   completed, collected>>
    /\ UNCHANGED <<managerVars, mergeVars, snapshotVars, baseVars,
                   breakerVars, cacheVars, keyVars>>

\* StockFilter.__init__: self.max_workers = max_workers or self.args.max_workers
StockFilterInit(max_workers, args_workers) ==
    /\ args_max_workers = args_workers
    /\ self_max_workers = IF max_workers = None THEN args_workers
                          ELSE Get(max_workers)

IdleStage ==
    /\ stage = "idle"
    /\ stock_list = <<>>
    /\ StockFilterInit(None, 1)
    /\ tasks = <<>>
    /\ completed = <<>>
    /\ collected = <<>>
    /\ stage_ret = NoRet

(***************************************************************************)
(* StockFilter.filter_stocks: the three stages in sequence                 *)
(***************************************************************************)
\* Full-market tables a delivering bulk source returns: no row, two rows
\* that pass the base stage, one passing row next to an ST row.
PipelineTables ==
    {<<>>,
     <<[code |-> "000001", name |-> <<"b">>, amount |-> BASE_DAILY_AMOUNT + 1,
        total_mv |-> BASE_MARKET_VALUE + 1],
       [code |-> "300251", name |-> <<"b">>, amount |-> BASE_DAILY_AMOUNT + 1,
        total_mv |-> BASE_MARKET_VALUE + 1]>>,
     <<[code |-> "000001", name |-> <<"*", "S", "T">>,
        amount |-> BASE_DAILY_AMOUNT + 1, total_mv |-> BASE_MARKET_VALUE + 1],
       [code |-> "300251", name |-> <<"b">>, amount |-> BASE_DAILY_AMOUNT + 1,
        total_mv |-> BASE_MARKET_VALUE + 1]>>}

\* filter_stocks is entered.
filter_stocks_call ==
    /\ pipeline = "idle"
    /\ pipeline' = "base"
    /\ UNCHANGED <<quote_table, base_ret, pipeline_ret, stage_outputs>>
    /\ UNCHANGED <<managerVars, mergeVars, snapshotVars, stageVars,
                   breakerVars, cacheVars, keyVars>>

\* Line 52, first statement of base_info_filter (line 60):
\* self.fetcher_manager.get_all_realtime_quote().
filter_stocks_fetch_all == pipeline = "base" /\ get_all_realtime_quote_call

\* Lines 52 and 61-65: base_info_filter on what the manager returned; an
\* exception leaves filter_stocks, a list goes to income_filter.
filter_stocks_base ==
    LET df_all == IF ret.value = None THEN None ELSE quote_table
        result == base_info_filter(df_all)
    IN
    /\ pipeline = "base"
    /\ op = "get_all_realtime_quote"
    /\ ret.kind = "return"
    /\ base_ret' = result
    /\ IF result.kind = "raise"
          THEN /\ pipeline' = "done"
               /\ pipeline_ret' = result
               /\ UNCHANGED <<stock_list, stage_outputs>>
          ELSE /\ pipeline' = "income"
               /\ stock_list' = result.value
               /\ stage_outputs' = [stage_outputs EXCEPT !.base = Some(result.value)]
               /\ UNCHANGED pipeline_ret
    /\ UNCHANGED quote_table
    /\ UNCHANGED <<stage, self_max_workers, args_max_workers, tasks, completed,
                   collected, stage_ret>>
    /\ UNCHANGED <<managerVars, mergeVars, snapshotVars, breakerVars, cacheVars,
                   keyVars>>

\* Line 54: stock_codes = self.income_filter(stock_codes).
filter_stocks_income == pipeline = "income" /\ income_filter_call

\* Lines 54-56: income_filter is over; an exception leaves filter_stocks, a
\* list goes to history_info_filter.
filter_stocks_income_done ==
    /\ pipeline = "income"
    /\ stage = "income"
    /\ stage_ret # NoRet
    /\ IF stage_ret.kind = "raise"
          THEN /\ pipeline' = "done"
               /\ pipeline_ret' = stage_ret
               /\ UNCHANGED <<stage, stock_list, stage_ret, stage_outputs>>
          ELSE /\ pipeline' = "history"
               /\ stock_list' = stage_ret.value
               /\ stage_outputs' = [stage_outputs EXCEPT !.income = Some(stage_ret.value)]
               /\ stage' = "idle"
               /\ stage_ret' = NoRet
               /\ UNCHANGED pipeline_ret
    /\ UNCHANGED <<quote_table, base_ret>>
    /\ UNCHANGED <<self_max_workers, args_max_workers, tasks, completed, collected>>
    /\ UNCHANGED <<managerVars, mergeVars, snapshotVars, breakerVars, cacheVars,
                   keyVars>>

\* Line 56: stock_codes = self.history_info_filter(stock_codes).
filter_stocks_history == pipeline = "history" /\ history_info_filter_call

\* Lines 56-58: return stock_codes.
filter_stocks_return ==
    /\ pipeline = "history"
    /\ stage = "history"
    /\ stage_ret # NoRet
    /\ pipeline' = "done"
    /\ pipeline_ret' = stage_ret
    /\ UNCHANGED <<quote_table, base_ret, stage_outputs>>
    /\ UNCHANGED <<managerVars, mergeVars, snapshotVars, stageVars, breakerVars,
                   cacheVars, keyVars>>

(***************************************************************************)
(* SearchService: the in-memory search result cache                        *)
(***************************************************************************)
\* _MAX_CACHE_SIZE, scaled: 3 entries stand for the code's 500.
MAX_CACHE_SIZE == 3
\* SearchService._cache_ttl, scaled: 1 clock tick stands for the code's 600
\* seconds.
CACHE_TTL == 1
\* The clock stops advancing here.
MaxCacheClock == 2

\* Cache keys (_cache_key strings) and the responses stored under them.
CacheKeys == {"q1", "q2", "q3", "q4"}
CacheResponses == {"r1", "r2"}

\* The dict keeps insertion order; an entry is (key, (timestamp, response)).
CacheKeySeq(c) == [i \in DOMAIN c |-> c[i].key]
CacheKeySet(c) == {c[i].key : i \in DOMAIN c}
CacheEntry(c, k) == c[CHOOSE i \in DOMAIN c : c[i].key = k]

\* del self._cache[k]
CacheDel(c, k) == SelectSeq(c, LAMBDA e : e.key # k)

RECURSIVE CacheDelAll(_, _)
CacheDelAll(c, ks) ==
    IF ks = <<>> THEN c ELSE CacheDelAll(CacheDel(c, Head(ks)), Tail(ks))

\* self._cache[k] = (ts, response): a present key keeps its position.
CacheSet(c, k, ts, r) ==
    LET e == [key |-> k, ts |-> ts, response |-> r] IN
    IF k \in CacheKeySet(c)
       THEN [i \in DOMAIN c |-> IF c[i].key = k THEN e ELSE c[i]]
       ELSE Append(c, e)

\* Variant of the expiry test that already expires an entry aged exactly TTL.
IsExpired_AtTTL(ts, now) == now - ts >= CACHE_TTL

\* time.time() - ts > self._cache_ttl
IsExpired(ts, now) == now - ts > CACHE_TTL

\* SearchService._get_cached: the cache after the call and the returned value.
get_cached(c, key, now) ==
    IF key \notin CacheKeySet(c) THEN [cache |-> c, value |-> None]
    ELSE LET entry == CacheEntry(c, key) IN
         IF IsExpired(entry.ts, now)
            THEN [cache |-> CacheDel(c, key), value |-> None]
            ELSE [cache |-> c, value |-> Some(entry.response)]

\* sorted(..., key=timestamp): stable insertion of e into a sorted sequence.
RECURSIVE InsertByTs(_, _)
InsertByTs(sorted, e) ==
    IF sorted = <<>> THEN <<e>>
    ELSE IF Head(sorted).ts <= e.ts THEN <<Head(sorted)>> \o InsertByTs(Tail(sorted), e)
    ELSE <<e>> \o sorted

RECURSIVE SortedByTs(_)
SortedByTs(c) ==
    IF c = <<>> THEN <<>>
    ELSE InsertByTs(SortedByTs(SubSeq(c, 1, Len(c) - 1)), c[Len(c)])

\* Variant that takes the first `excess` keys in dict order, without sorting.
Oldest_DictOrder(c, excess) == CacheKeySeq(SubSeq(c, 1, excess))

\* sorted(self._cache.keys(), key=lambda k: self._cache[k][0])[:excess]
Oldest(c, excess) == CacheKeySeq(SubSeq(SortedByTs(c), 1, excess))

\* Variant of the capacity test that lets the cache grow one entry further.
AtCapacity_Beyond(c) == Len(c) > MAX_CACHE_SIZE

\* len(self._cache) >= _MAX_CACHE_SIZE
AtCapacity(c) == Len(c) >= MAX_CACHE_SIZE

\* SearchService._put_cache: the cache after the call, with the two lists of
\* keys the call deleted.
put_cache(c, key, response, now) ==
    LET expired == IF AtCapacity(c)
                      THEN CacheKeySeq(SelectSeq(c, LAMBDA e : IsExpired(e.ts, now)))
                      ELSE <<>>
        purged == CacheDelAll(c, expired)
        oldest == IF AtCapacity(c) /\ AtCapacity(purged)
                     THEN Oldest(purged, Len(purged) - MAX_CACHE_SIZE + 1)
                     ELSE <<>>
        evicted == CacheDelAll(purged, oldest)
    IN [cache |-> CacheSet(evicted, key, now, response),
        expired |-> expired, oldest |-> oldest]

get_cached_call ==
    /\ \E key \in CacheKeys :
        LET got == get_cached(cache, key, cache_clock) IN
        /\ cache' = got.cache
        /\ cache_ret' = [kind |-> "get", key |-> key, value |-> got.value]
    /\ UNCHANGED <<cache_clock, cache_threads, providers, service>>
    /\ UNCHANGED <<managerVars, mergeVars, snapshotVars, baseVars, stageVars,
                   breakerVars, keyVars>>

put_cache_call ==
    /\ \E key \in CacheKeys, response \in CacheResponses :
        LET put == put_cache(cache, key, response, cache_clock) IN
        /\ cache' = put.cache
        /\ cache_ret' = [kind |-> "put", key |-> key, response |-> response,
                         expired |-> put.expired, oldest |-> put.oldest]
    /\ UNCHANGED <<cache_clock, cache_threads, providers, service>>
    /\ UNCHANGED <<managerVars, mergeVars, snapshotVars, baseVars, stageVars,
                   breakerVars, keyVars>>

\* Time passes between two calls.
CacheTick ==
    /\ cache_clock < MaxCacheClock
    /\ cache_clock' = cache_clock + 1
    /\ UNCHANGED <<cache, cache_ret, cache_threads, providers, service>>
    /\ UNCHANGED <<managerVars, mergeVars, snapshotVars, baseVars, stageVars,
                   breakerVars, keyVars>>

(***************************************************************************)
(* SearchService: worker threads inside _get_cached and _put_cache         *)
(*                                                                         *)
(* The methods take no lock, so a thread can be suspended between any two  *)
(* of its dict operations.  Each action below is one dict operation of one *)
(* thread (a scan or a sort of the dict counts as one operation).          *)
(***************************************************************************)
CacheThreads == {"t1", "t2"}
\* Each thread makes at most this many cache calls.
MaxThreadCalls == 2

\* A thread's position: the method it is in and at which statement, the
\* method's arguments, the keys it still has to delete, the number of calls
\* it has made and the outcome of its last call.
CacheThread(pc, key, response, todo, n, out) ==
    [pc |-> pc, key |-> key, response |-> response, todo |-> todo,
     calls |-> n, ret |-> out]
IdleThread(n) == CacheThread("idle", "", "", <<>>, n, NoRet)
ThreadReturns(n, v)  == CacheThread("idle", "", "", <<>>, n, Return(v))
\* del self._cache[k] on a key that is no longer there.
ThreadRaises(n, k) == CacheThread("idle", "", "", <<>>, n, Raise("KeyError", k))

ThreadStep(t, next) ==
    /\ cache_threads' = [cache_threads EXCEPT ![t] = next]
    /\ UNCHANGED <<cache_clock, cache_ret, providers, service>>
    /\ UNCHANGED <<managerVars, mergeVars, snapshotVars, baseVars, stageVars,
                   breakerVars, keyVars>>

\* _get_cached, lines 130-134 and 136-138: the lookup and the expiry test on
\* the thread's own copy of the entry.
thread_get_cached(t) ==
    LET me == cache_threads[t] IN
    /\ me.pc = "idle"
    /\ me.calls < MaxThreadCalls
    /\ \E key \in CacheKeys :
        /\ UNCHANGED cache
        /\ IF key \notin CacheKeySet(cache)
              THEN ThreadStep(t, ThreadReturns(me.calls + 1, None))
           ELSE IF IsExpired(CacheEntry(cache, key).ts, cache_clock)
              THEN ThreadStep(t, CacheThread("get_del", key, "", <<>>,
                                             me.calls + 1, NoRet))
           ELSE ThreadStep(t, ThreadReturns(me.calls + 1,
                                  Some(CacheEntry(cache, key).response)))

\* _get_cached, line 135: del self._cache[key].
thread_get_del(t) ==
    LET me == cache_threads[t] IN
    /\ me.pc = "get_del"
    /\ IF me.key \in CacheKeySet(cache)
          THEN /\ cache' = CacheDel(cache, me.key)
               /\ ThreadStep(t, ThreadReturns(me.calls, None))
          ELSE /\ UNCHANGED cache
               /\ ThreadStep(t, ThreadRaises(me.calls, me.key))

\* _put_cache, line 144: the first length test.
thread_put_cache(t) ==
    LET me == cache_threads[t] IN
    /\ me.pc = "idle"
    /\ me.calls < MaxThreadCalls
    /\ \E key \in CacheKeys, response \in CacheResponses :
        /\ UNCHANGED cache
        /\ ThreadStep(t, CacheThread(IF AtCapacity(cache) THEN "put_scan"
                                                           ELSE "put_insert",
                                     key, response, <<>>, me.calls + 1, NoRet))

\* _put_cache, lines 145-147: the list of expired keys.
thread_put_scan(t) ==
    LET me == cache_threads[t]
        expired == CacheKeySeq(SelectSeq(cache,
                                   LAMBDA e : IsExpired(e.ts, cache_clock)))
    IN
    /\ me.pc = "put_scan"
    /\ UNCHANGED cache
    /\ ThreadStep(t, [me EXCEPT !.pc = "put_purge", !.todo = expired])

\* One del of a loop over the thread's list of keys (lines 148-149 and
\* 154-155); after the last one the thread moves on to `after`.
ThreadDelete(t, at, after) ==
    LET me == cache_threads[t] IN
    /\ me.pc = at
    /\ IF me.todo = <<>>
          THEN /\ UNCHANGED cache
               /\ ThreadStep(t, [me EXCEPT !.pc = after])
       ELSE IF Head(me.todo) \in CacheKeySet(cache)
          THEN /\ cache' = CacheDel(cache, Head(me.todo))
               /\ ThreadStep(t, [me EXCEPT !.todo = Tail(me.todo)])
       ELSE /\ UNCHANGED cache
            /\ ThreadStep(t, ThreadRaises(me.calls, Head(me.todo)))

thread_put_purge(t) == ThreadDelete(t, "put_purge", "put_recheck")

\* _put_cache, lines 151-153: the second length test and the sorted keys.
thread_put_recheck(t) ==
    LET me == cache_threads[t] IN
    /\ me.pc = "put_recheck"
    /\ UNCHANGED cache
    /\ IF AtCapacity(cache)
          THEN ThreadStep(t, [me EXCEPT !.pc = "put_evict",
                  !.todo = Oldest(cache, Len(cache) - MAX_CACHE_SIZE + 1)])
          ELSE ThreadStep(t, [me EXCEPT !.pc = "put_insert"])

thread_put_evict(t) == ThreadDelete(t, "put_evict", "put_insert")

\* _put_cache, line 156: self._cache[key] = (time.time(), response).
thread_put_insert(t) ==
    LET me == cache_threads[t] IN
    /\ me.pc = "put_insert"
    /\ cache' = CacheSet(cache, me.key, cache_clock, me.response)
    /\ ThreadStep(t, ThreadReturns(me.calls, None))


(***************************************************************************)
(* BaseSearchProvider: API key rotation                                    *)
(***************************************************************************)
\* A key with this many recorded errors is passed over.
KEY_ERROR_LIMIT == 3
\* Searches of one provider that may be in flight at once, and the value at
\* which an error counter stops being incremented.
MaxSearches == 2
MaxKeyErrors == 4
\* The value at which a usage counter stops being incremented.
MaxKeyUsage == 2
\* Worker threads searching with one provider, and the searches each makes.
KeyThreads == {"s1", "s2"}
MaxThreadSearches == 2

\* A thread's position inside search(): the statement it is at, the key it
\* was given, the counter value it has read, and the calls it has made.
KeyThread(pc, key, local, n) ==
    [pc |-> pc, key |-> key, local |-> local, calls |-> n]

\* Configured key lists: none, one key, several keys, a key listed twice.
KeyLists ==
    {<<>>, <<"k1">>, <<"k1", "k2">>, <<"k1", "k2", "k3">>, <<"k1", "k2", "k1">>}

\* BaseSearchProvider.__init__: the cycle stands before the first key and
\* every configured key has no error.
ProviderInit(keys) ==
    /\ api_keys = keys
    /\ key_cycle = 1
    /\ key_errors = [k \in {keys[i] : i \in DOMAIN keys} |-> 0]
    /\ key_inflight = <<>>
    /\ key_ret = NoRet
    /\ key_usage = [k \in {keys[i] : i \in DOMAIN keys} |-> 0]
    /\ key_threads = [t \in KeyThreads |-> KeyThread("idle", "", 0, 0)]
    /\ key_log = [errors |-> [k \in {keys[i] : i \in DOMAIN keys} |-> 0],
                  successes |-> [k \in {keys[i] : i \in DOMAIN keys} |-> 0],
                  resets |-> 0]
    /\ search_count = 0
    /\ search_ret = NoRet

\* next(self._key_cycle): the position after cur.
CycleNext(keys, cur) == (cur % Len(keys)) + 1

\* Variant of the test that still hands out a key with exactly three errors.
Usable_AtLimit(errs, key) == errs[key] <= KEY_ERROR_LIMIT

\* self._key_errors.get(key, 0) < 3
Usable(errs, key) == errs[key] < KEY_ERROR_LIMIT

\* The loop `for _ in range(len(self._api_keys))` with `tries` rounds left;
\* when it runs out, the counters are reset and the first key is returned.
RECURSIVE NextKeyFrom(_, _, _, _)
NextKeyFrom(keys, errs, cur, tries) ==
    IF tries = 0
       THEN [key |-> Some(keys[1]), cycle |-> cur,
             errors |-> [k \in DOMAIN errs |-> 0], skipped |-> Len(keys)]
    ELSE IF Usable(errs, keys[cur])
       THEN [key |-> Some(keys[cur]), cycle |-> CycleNext(keys, cur),
             errors |-> errs, skipped |-> Len(keys) - tries]
    ELSE NextKeyFrom(keys, errs, CycleNext(keys, cur), tries - 1)

\* BaseSearchProvider._get_next_key
get_next_key(keys, errs, cur) ==
    IF keys = <<>>
       THEN [key |-> None, cycle |-> cur, errors |-> errs, skipped |-> 0]
       ELSE NextKeyFrom(keys, errs, cur, Len(keys))

\* Variant of _record_success that decrements without testing for 0.
record_success_Unguarded(errs, key) == [errs EXCEPT ![key] = errs[key] - 1]

\* BaseSearchProvider._record_success: a success takes one error back.
record_success(errs, key) ==
    IF key \in DOMAIN errs /\ errs[key] > 0
       THEN [errs EXCEPT ![key] = errs[key] - 1]
       ELSE errs

\* BaseSearchProvider._record_success: the usage counter of the key.
record_usage(usage, key) == [usage EXCEPT ![key] = usage[key] + 1]

\* BaseSearchProvider._record_error
record_error(errs, key) == [errs EXCEPT ![key] = errs[key] + 1]

\* BaseSearchProvider.search up to the call of _do_search: a key is taken;
\* without a key the search ends at once.
search_call ==
    LET next == get_next_key(api_keys, key_errors, key_cycle) IN
    /\ Len(key_inflight) < MaxSearches
    /\ key_cycle' = next.cycle
    /\ key_errors' = next.errors
    /\ key_inflight' = IF next.key = None THEN key_inflight
                        ELSE Append(key_inflight, Get(next.key))
    /\ key_ret' = [kind |-> "get_next_key", value |-> next.key,
                   skipped |-> next.skipped]
    /\ UNCHANGED <<api_keys, key_usage, key_threads, key_log, search_count,
                   search_ret>>
    /\ UNCHANGED <<managerVars, mergeVars, snapshotVars, baseVars, stageVars,
                   breakerVars, cacheVars>>

\* BaseSearchProvider.search after _do_search: the response reports success,
\* or it reports failure or _do_search raised.
search_done ==
    /\ \E i \in DOMAIN key_inflight, success \in BOOLEAN :
        LET key == key_inflight[i] IN
        /\ success \/ key_errors[key] < MaxKeyErrors
        /\ ~success \/ key_usage[key] < MaxKeyUsage
        /\ key_errors' = IF success THEN record_success(key_errors, key)
                          ELSE record_error(key_errors, key)
        /\ key_usage' = IF success THEN record_usage(key_usage, key)
                         ELSE key_usage
        /\ key_inflight' = SubSeq(key_inflight, 1, i - 1)
                                \o SubSeq(key_inflight, i + 1, Len(key_inflight))
        /\ key_ret' = [kind |-> IF success THEN "record_success" ELSE "record_error",
                       value |-> Some(key), skipped |-> 0]
    /\ UNCHANGED <<api_keys, key_cycle, key_threads, key_log, search_count,
                   search_ret>>
    /\ UNCHANGED <<managerVars, mergeVars, snapshotVars, baseVars, stageVars,
                   breakerVars, cacheVars>>

(***************************************************************************)
(* BaseSearchProvider.search, one call after the other                     *)
(***************************************************************************)
\* search() calls made on one provider.
MaxSequentialSearches == 8

\* self._name of the provider.
ProviderName == "Tavily"
SearchQueries == {"600519 news"}

\* The SearchResponse dataclass (search_time left out).
SearchResponse(query, results, provider, success, error_message) ==
    [query |-> query, results |-> results, provider |-> provider,
     success |-> success, error_message |-> error_message]

\* What the subclass's _do_search does: it returns a successful response,
\* returns a failed response, or raises.
DoSearchOutcomes(query) ==
    {[kind |-> "response",
      response |-> SearchResponse(query, <<"url1">>, ProviderName, TRUE, None)],
     [kind |-> "response",
      response |-> SearchResponse(query, <<>>, ProviderName, TRUE, None)],
     [kind |-> "response",
      response |-> SearchResponse(query, <<>>, ProviderName, FALSE, Some("HTTP 429"))],
     [kind |-> "raise", exc |-> "Timeout", message |-> "timed out"]}

\* Variant that lets an exception of _do_search leave search().
search_result_Propagates(query, outcome) ==
    IF outcome.kind = "raise" THEN Raise(outcome.exc, outcome.message)
    ELSE Return(outcome.response)

\* search(), lines 182-205: the response of _do_search, or for an exception
\* a failed response carrying str(e).
search_result(query, outcome) ==
    IF outcome.kind = "raise"
       THEN Return(SearchResponse(query, <<>>, ProviderName, FALSE,
                                  Some(outcome.message)))
       ELSE Return(outcome.response)

\* search(), lines 186-194: which of _record_success and _record_error runs.
search_records(outcome) ==
    IF outcome.kind = "response" /\ outcome.response.success
       THEN "successes" ELSE "errors"

\* BaseSearchProvider.search as one call: the key, _do_search, the record
\* of the outcome, the response.
search ==
    LET next == get_next_key(api_keys, key_errors, key_cycle) IN
    /\ key_inflight = <<>>
    /\ search_count < MaxSequentialSearches
    /\ search_count' = search_count + 1
    /\ \E query \in SearchQueries :
        IF next.key = None
           THEN /\ search_ret' =
                     [key |-> None, outcome |-> None,
                      ret |-> Return(SearchResponse(query, <<>>, ProviderName,
                                                    FALSE, Some("no API key")))]
                /\ UNCHANGED <<key_cycle, key_errors, key_usage, key_log>>
           ELSE \E outcome \in DoSearchOutcomes(query) :
                LET key == Get(next.key)
                    field == search_records(outcome)
                    reset == next.skipped = Len(api_keys)
                IN
                /\ key_cycle' = next.cycle
                /\ key_errors' = IF field = "successes"
                                    THEN record_success(next.errors, key)
                                    ELSE record_error(next.errors, key)
                /\ key_usage' = IF field = "successes"
                                   THEN record_usage(key_usage, key)
                                   ELSE key_usage
                /\ key_log' = [key_log EXCEPT
                                  ![field][key] = key_log[field][key] + 1,
                                  !.resets = IF reset THEN key_log.resets + 1
                                             ELSE key_log.resets]
                /\ search_ret' = [key |-> next.key, outcome |-> Some(outcome),
                                  ret |-> search_result(query, outcome)]
    /\ UNCHANGED <<api_keys, key_inflight, key_ret, key_threads>>
    /\ UNCHANGED <<managerVars, mergeVars, snapshotVars, baseVars, stageVars,
                   breakerVars, cacheVars>>

(***************************************************************************)
(* BaseSearchProvider: worker threads inside search()                      *)
(*                                                                         *)
(* search() takes no lock.  _get_next_key is one action; every read and    *)
(* every write of a counter in _record_success and _record_error is one    *)
(* action, since `d[k] = d.get(k, 0) + 1` and `d[k] -= 1` read the counter *)
(* and store it back in separate steps.                                    *)
(***************************************************************************)
KeyThreadStep(t, next) ==
    /\ key_threads' = [key_threads EXCEPT ![t] = next]
    /\ UNCHANGED <<api_keys, key_inflight, key_ret, search_count, search_ret>>
    /\ UNCHANGED <<managerVars, mergeVars, snapshotVars, baseVars, stageVars,
                   breakerVars, cacheVars>>

\* The call is over: its outcome on the key is recorded.
KeyLogged(field, key) ==
    key_log' = [key_log EXCEPT ![field][key] = key_log[field][key] + 1]

\* search(), lines 171-179: api_key = self._get_next_key().
thread_search(t) ==
    LET me == key_threads[t]
        next == get_next_key(api_keys, key_errors, key_cycle) IN
    /\ me.pc = "idle"
    /\ me.calls < MaxThreadSearches
    /\ key_cycle' = next.cycle
    /\ key_errors' = next.errors
    /\ key_log' = IF api_keys # <<>> /\ next.skipped = Len(api_keys)
                     THEN [key_log EXCEPT !.resets = key_log.resets + 1]
                     ELSE key_log
    /\ UNCHANGED key_usage
    /\ IF next.key = None
          THEN KeyThreadStep(t, KeyThread("idle", "", 0, me.calls + 1))
          ELSE KeyThreadStep(t, KeyThread("searching", Get(next.key), 0,
                                          me.calls + 1))

\* _record_error, line 151: the read of self._key_errors.get(key, 0).
thread_record_error(t) ==
    LET me == key_threads[t] IN
    /\ me.pc = "searching"
    /\ UNCHANGED <<key_cycle, key_errors, key_usage, key_log>>
    /\ KeyThreadStep(t, [me EXCEPT !.pc = "error_store",
                                   !.local = key_errors[me.key]])

\* _record_error, line 151: the store of the incremented value.
thread_error_store(t) ==
    LET me == key_threads[t] IN
    /\ me.pc = "error_store"
    /\ key_errors' = [key_errors EXCEPT ![me.key] = me.local + 1]
    /\ KeyLogged("errors", me.key)
    /\ UNCHANGED <<key_cycle, key_usage>>
    /\ KeyThreadStep(t, KeyThread("idle", "", 0, me.calls))

\* _record_success, line 144: the read of self._key_usage.get(key, 0).
thread_record_success(t) ==
    LET me == key_threads[t] IN
    /\ me.pc = "searching"
    /\ UNCHANGED <<key_cycle, key_errors, key_usage, key_log>>
    /\ KeyThreadStep(t, [me EXCEPT !.pc = "usage_store",
                                   !.local = key_usage[me.key]])

\* _record_success, line 144: the store of the incremented usage.
thread_usage_store(t) ==
    LET me == key_threads[t] IN
    /\ me.pc = "usage_store"
    /\ key_usage' = [key_usage EXCEPT ![me.key] = me.local + 1]
    /\ UNCHANGED <<key_cycle, key_errors, key_log>>
    /\ KeyThreadStep(t, [me EXCEPT !.pc = "error_test", !.local = 0])

\* _record_success, line 146: the test self._key_errors[key] > 0.
thread_error_test(t) ==
    LET me == key_threads[t] IN
    /\ me.pc = "error_test"
    /\ UNCHANGED <<key_cycle, key_errors, key_usage>>
    /\ IF key_errors[me.key] > 0
          THEN /\ UNCHANGED key_log
               /\ KeyThreadStep(t, [me EXCEPT !.pc = "error_load"])
          ELSE /\ KeyLogged("successes", me.key)
               /\ KeyThreadStep(t, KeyThread("idle", "", 0, me.calls))

\* _record_success, line 147: the read of `self._key_errors[key] -= 1`.
thread_error_load(t) ==
    LET me == key_threads[t] IN
    /\ me.pc = "error_load"
    /\ UNCHANGED <<key_cycle, key_errors, key_usage, key_log>>
    /\ KeyThreadStep(t, [me EXCEPT !.pc = "error_decrement",
                                   !.local = key_errors[me.key]])

\* _record_success, line 147: the store of `self._key_errors[key] -= 1`.
thread_error_decrement(t) ==
    LET me == key_threads[t] IN
    /\ me.pc = "error_decrement"
    /\ key_errors' = [key_errors EXCEPT ![me.key] = me.local - 1]
    /\ KeyLogged("successes", me.key)
    /\ UNCHANGED <<key_cycle, key_usage>>
    /\ KeyThreadStep(t, KeyThread("idle", "", 0, me.calls))

(***************************************************************************)
(* SearchService: providers, search_stock_news, search_stock_price_fallback *)
(***************************************************************************)
\* Calls of search_stock_news made on one service.
MaxNewsCalls == 2
\* Largest max_results and max_attempts a caller passes.
MaxResults == 3
MaxAttempts == 4
\* len(ENHANCED_SEARCH_KEYWORDS), scaled: 3 templates stand for the code's 5.
KEYWORD_TEMPLATES == 3

\* __init__, lines 72-93: the order in which configured providers are added.
PROVIDER_ORDER == <<"Bocha", "Tavily", "Brave", "SerpAPI">>

\* SearchService.__init__ with key lists for the providers in `configured`
\* and none (or an empty list) for the others.
ServiceInit(configured) ==
    SelectSeq([i \in DOMAIN PROVIDER_ORDER |->
                  [name |-> PROVIDER_ORDER[i],
                   api_keys |-> IF PROVIDER_ORDER[i] \in configured
                                   THEN <<"key">> ELSE <<>>]],
              LAMBDA p : p.api_keys # <<>>)

\* Provider sets a deployment configures.
ServiceConfigs ==
    {{}, {"SerpAPI"}, {"Bocha", "Brave"}, {"Tavily", "Brave", "SerpAPI"},
     {"Bocha", "Tavily", "Brave", "SerpAPI"}}

\* BaseSearchProvider.is_available: bool(self._api_keys)
provider_is_available(p) == p.api_keys # <<>>

\* SearchService.is_available: any(p.is_available for p in self._providers)
service_is_available(ps) == \E i \in DOMAIN ps : provider_is_available(ps[i])

\* A SearchResult: its url and the provider it came from.
SearchResult(url, source) == [url |-> url, source |-> source]

\* Result lists a provider delivers: none, one, two, one that repeats a url.
ResultUrls == {<<>>, <<"u1">>, <<"u2", "u1">>, <<"u3", "u3">>}
NewsResultUrls == {<<>>, <<"u1">>}

\* What provider.search returns (it does not raise): a successful response
\* with or without results, or a failed one.
ProviderReplies(name, query, lists) ==
    {SearchResponse(query, [i \in DOMAIN urls |-> SearchResult(urls[i], name)],
                    name, TRUE, None) : urls \in lists}
        \cup {SearchResponse(query, <<>>, name, FALSE, Some("HTTP 429"))}

\* Variant of the acceptance test that takes any successful response.
HasResults_AnySuccess(response) == response.success

\* `response.success and response.results`
HasResults(response) == response.success /\ response.results # <<>>

\* search_stock_news, lines 180-187: the time range by weekday.
search_days(weekday) ==
    IF weekday = 0 THEN 3 ELSE IF weekday >= 5 THEN 2 ELSE 1

\* _cache_key: f"{query}|{max_results}|{days}", kept as the triple.
cache_key(query, max_results, days) == <<query, max_results, days>>

NewsQueries == {"600519 news", "AAPL stock latest news"}
Weekdays == {0, 2}

\* s[:n] for n >= 0
Take(s, n) == SubSeq(s, 1, IF n < Len(s) THEN n ELSE Len(s))

\* `x in list`
Listed(list, x) == \E i \in DOMAIN list : list[i] = x

\* No call has been made on the service.
IdleService ==
    [op |-> "idle", calls |-> 0, query |-> "", key |-> <<>>, pos |-> 1,
     tried |-> <<>>, attempt |-> 1, max_attempts |-> 0, max_results |-> 0,
     all_results |-> <<>>, seen_urls |-> {}, successful_providers |-> <<>>,
     ret |-> NoRet]

ServiceStep(next) ==
    /\ service' = next
    /\ UNCHANGED <<cache_clock, cache_ret, cache_threads, providers>>
    /\ UNCHANGED <<managerVars, mergeVars, snapshotVars, baseVars, stageVars,
                   breakerVars, keyVars>>

\* search_stock_news up to the provider loop (lines 180-209): the query, the
\* cache key, and the cached response if one is still valid.
search_stock_news_call ==
    /\ service.op = "idle" \/ service.ret # NoRet
    /\ service.calls < MaxNewsCalls
    /\ \E query \in NewsQueries, weekday \in Weekdays :
        LET key == cache_key(query, 5, search_days(weekday))
            cached == get_cached(cache, key, cache_clock)
            call == [IdleService EXCEPT !.op = "search_stock_news",
                                        !.calls = service.calls + 1,
                                        !.query = query, !.key = key]
        IN
        /\ cache' = cached.cache
        /\ ServiceStep(IF cached.value # None
                          THEN [call EXCEPT !.ret = Return(Get(cached.value))]
                          ELSE call)

\* One round of `for provider in self._providers` (lines 212-223).
search_stock_news_try ==
    /\ service.op = "search_stock_news"
    /\ service.ret = NoRet
    /\ service.pos <= Len(providers)
    /\ LET provider == providers[service.pos] IN
       IF ~provider_is_available(provider)
          THEN /\ UNCHANGED cache
               /\ ServiceStep([service EXCEPT !.pos = service.pos + 1])
          ELSE \E response \in ProviderReplies(provider.name, service.query,
                                               NewsResultUrls) :
                LET next == [service EXCEPT !.tried =
                                Append(service.tried,
                                       [provider |-> provider.name,
                                        accepted |-> HasResults(response)])]
                IN
                IF HasResults(response)
                   THEN /\ cache' = put_cache(cache, service.key, response,
                                              cache_clock).cache
                        /\ ServiceStep([next EXCEPT !.ret = Return(response)])
                   ELSE /\ UNCHANGED cache
                        /\ ServiceStep([next EXCEPT !.pos = service.pos + 1])

\* Lines 225-232: every provider failed, or none is configured.
search_stock_news_failed ==
    /\ service.op = "search_stock_news"
    /\ service.ret = NoRet
    /\ service.pos > Len(providers)
    /\ UNCHANGED cache
    /\ ServiceStep([service EXCEPT !.ret =
            Return(SearchResponse(service.query, <<>>, "None", FALSE,
                                  Some("all providers failed")))])

\* Variant that appends every result, seen or not.
add_unseen_All(all_results, result) == Append(all_results, result)

\* Lines 537-540: a result is appended unless its url has been seen.
add_unseen(all_results, result) ==
    IF result.url \in {all_results[i].url : i \in DOMAIN all_results}
       THEN all_results ELSE Append(all_results, result)

RECURSIVE add_results(_, _)
add_results(all_results, results) ==
    IF results = <<>> THEN all_results
    ELSE add_results(add_unseen(all_results, Head(results)), Tail(results))

\* search_stock_price_fallback up to the template loop (lines 505-524).
search_stock_price_fallback_call ==
    /\ service.op = "idle"
    /\ UNCHANGED cache
    /\ \E max_attempts \in 0..MaxAttempts, max_results \in 0..MaxResults :
        LET call == [IdleService EXCEPT !.op = "search_stock_price_fallback",
                                        !.calls = 1,
                                        !.query = "price trend",
                                        !.max_attempts = max_attempts,
                                        !.max_results = max_results]
        IN
        ServiceStep(IF ~service_is_available(providers)
                       THEN [call EXCEPT !.ret =
                                Return(SearchResponse("price trend", <<>>, "None",
                                                      FALSE, Some("no API key")))]
                       ELSE call)

\* The templates searched: keywords[:max_attempts].
Templates(max_attempts) == Take([i \in 1..KEYWORD_TEMPLATES |-> i], max_attempts)

\* One round of the provider loop for the current template (lines 529-551);
\* a successful response with results ends the template, the last provider's
\* failure ends it too.
search_stock_price_fallback_try ==
    /\ service.op = "search_stock_price_fallback"
    /\ service.ret = NoRet
    /\ service.attempt <= Len(Templates(service.max_attempts))
    /\ UNCHANGED cache
    /\ LET provider == providers[service.pos]
           last == service.pos = Len(providers)
       IN
       IF ~provider_is_available(provider)
          THEN ServiceStep([service EXCEPT
                    !.pos = IF last THEN 1 ELSE service.pos + 1,
                    !.attempt = IF last THEN service.attempt + 1
                                ELSE service.attempt])
          ELSE \E response \in ProviderReplies(provider.name, service.attempt,
                                               ResultUrls) :
                LET accepted == HasResults(response)
                    results == IF accepted
                                  THEN add_results(service.all_results, response.results)
                                  ELSE service.all_results
                    next == [service EXCEPT
                        !.tried = Append(service.tried,
                                         [template |-> service.attempt,
                                          provider |-> provider.name,
                                          accepted |-> accepted]),
                        !.all_results = results,
                        !.seen_urls = {results[i].url : i \in DOMAIN results},
                        !.successful_providers =
                            IF accepted /\ ~Listed(service.successful_providers, provider.name)
                               THEN Append(service.successful_providers, provider.name)
                               ELSE service.successful_providers]
                IN
                ServiceStep([next EXCEPT
                    !.pos = IF accepted \/ last THEN 1 ELSE service.pos + 1,
                    !.attempt = IF accepted \/ last THEN service.attempt + 1
                                ELSE service.attempt])

\* Lines 558-581: the aggregated response.
search_stock_price_fallback_return ==
    /\ service.op = "search_stock_price_fallback"
    /\ service.ret = NoRet
    /\ service.attempt > Len(Templates(service.max_attempts))
    /\ UNCHANGED cache
    /\ ServiceStep([service EXCEPT !.ret =
            IF service.all_results # <<>>
               THEN Return(SearchResponse("price trend",
                                          Take(service.all_results, service.max_results),
                                          service.successful_providers, TRUE, None))
               ELSE Return(SearchResponse("price trend", <<>>, "None", FALSE,
                                          Some("nothing found")))])

(***************************************************************************)
(* The circuit breaker (realtime_types: get_chip_circuit_breaker)          *)
(***************************************************************************)
\* Consecutive failures that open a circuit.
FAILURE_THRESHOLD == 3
\* Cooldown of an open circuit, scaled: 2 clock ticks stand for 5 minutes.
COOLDOWN == 2
\* The clock stops advancing here.
MaxClock == 4

\* The source keys of get_chip_distribution, in its order of preference.
CHIP_SOURCES ==
    <<[fetcher |-> "AkshareFetcher", key |-> "akshare_chip"],
      [fetcher |-> "TushareFetcher", key |-> "tushare_chip"],
      [fetcher |-> "EfinanceFetcher", key |-> "efinance_chip"]>>

BreakerKeys == {CHIP_SOURCES[i].key : i \in DOMAIN CHIP_SOURCES}

\* CircuitState of a key never used: CLOSED, no failure counted.
ClosedCircuit == [state |-> "CLOSED", failures |-> 0, opened_at |-> 0]

\* Variant of is_available that keeps admitting callers during the trial.
breaker_is_available_HalfOpenPasses(c, k, now) ==
    CASE c[k].state = "CLOSED" -> [circuit |-> c, result |-> TRUE]
      [] c[k].state = "OPEN" /\ now - c[k].opened_at >= COOLDOWN ->
            [circuit |-> [c EXCEPT ![k].state = "HALF_OPEN"], result |-> TRUE]
      [] c[k].state = "OPEN" /\ now - c[k].opened_at < COOLDOWN ->
            [circuit |-> c, result |-> FALSE]
      [] OTHER -> [circuit |-> c, result |-> TRUE]

\* is_available(key): CLOSED is available; OPEN is not until the cooldown has
\* elapsed since opening, and the first call after that turns the circuit
\* HALF_OPEN and is let through as the one trial; HALF_OPEN lets no one else
\* through.
breaker_is_available(c, k, now) ==
    CASE c[k].state = "CLOSED" -> [circuit |-> c, result |-> TRUE]
      [] c[k].state = "OPEN" /\ now - c[k].opened_at >= COOLDOWN ->
            [circuit |-> [c EXCEPT ![k].state = "HALF_OPEN"], result |-> TRUE]
      [] c[k].state = "OPEN" /\ now - c[k].opened_at < COOLDOWN ->
            [circuit |-> c, result |-> FALSE]
      [] OTHER -> [circuit |-> c, result |-> FALSE]

\* record_success(key): HALF_OPEN -> CLOSED with the count reset; in CLOSED
\* the run of consecutive failures ends.
breaker_record_success(c, k) ==
    IF c[k].state \in {"HALF_OPEN", "CLOSED"}
       THEN [c EXCEPT ![k] = ClosedCircuit]
       ELSE c

\* Variant of record_failure that opens the circuit one failure late.
breaker_record_failure_Late(c, k, now) ==
    CASE c[k].state = "HALF_OPEN" ->
            [c EXCEPT ![k].state = "OPEN", ![k].opened_at = now]
      [] c[k].state = "CLOSED" /\ c[k].failures + 1 > FAILURE_THRESHOLD ->
            [c EXCEPT ![k] = [state |-> "OPEN", failures |-> FAILURE_THRESHOLD,
                              opened_at |-> now]]
      [] c[k].state = "CLOSED" /\ c[k].failures + 1 <= FAILURE_THRESHOLD ->
            [c EXCEPT ![k].failures = c[k].failures + 1]
      [] OTHER -> c

\* record_failure(key): HALF_OPEN -> OPEN with the cooldown restarted; in
\* CLOSED the failure is counted and the threshold-th one opens the circuit.
breaker_record_failure(c, k, now) ==
    CASE c[k].state = "HALF_OPEN" ->
            [c EXCEPT ![k].state = "OPEN", ![k].opened_at = now]
      [] c[k].state = "CLOSED" /\ c[k].failures + 1 >= FAILURE_THRESHOLD ->
            [c EXCEPT ![k] = [state |-> "OPEN", failures |-> FAILURE_THRESHOLD,
                              opened_at |-> now]]
      [] c[k].state = "CLOSED" /\ c[k].failures + 1 < FAILURE_THRESHOLD ->
            [c EXCEPT ![k].failures = c[k].failures + 1]
      [] OTHER -> c

\* One call of the breaker API as the running operation made it.
BreakerCall(k, call, result) == [key |-> k, call |-> call, result |-> result]

\* Time passes.
BreakerTick ==
    /\ clock < MaxClock
    /\ clock' = clock + 1
    /\ UNCHANGED <<circuit, breaker_calls, worker_pc>>
    /\ UNCHANGED <<managerVars, mergeVars, snapshotVars, baseVars, stageVars,
                   cacheVars, keyVars>>

(***************************************************************************)
(* DataFetcherManager.get_chip_distribution                                *)
(***************************************************************************)
ChipOutcomes == {"unsupported", "null", "chip"} \cup AdapterExceptions

\* Entry: the enable switch is read from self.args before anything else.
get_chip_distribution_call ==
    /\ op = "idle"
    /\ op' = "get_chip_distribution"
    /\ pos' = 1
    /\ errors' = <<>>
    /\ calls' = <<>>
    /\ breaker_calls' = <<>>
    /\ ret' = IF ~HasAttr(args, "enable_chip_distribution")
                 THEN Raise("AttributeError", <<>>)
              ELSE IF ~args.enable_chip_distribution THEN Return(None)
              ELSE NoRet
    /\ UNCHANGED <<fetchers, registered, args, us, primary_quote, supplement_attempts>>
    /\ UNCHANGED <<circuit, clock, worker_pc>>
    /\ UNCHANGED <<mergeVars, snapshotVars, baseVars, stageVars, cacheVars,
                   keyVars>>

\* One iteration of `for fetcher_name, source_key in chip_sources`.
get_chip_distribution_try ==
    /\ op = "get_chip_distribution"
    /\ ret.kind = "none"
    /\ pos <= Len(CHIP_SOURCES)
    /\ LET s == CHIP_SOURCES[pos]
           avail == breaker_is_available(circuit, s.key, clock)
           asked == Append(breaker_calls, BreakerCall(s.key, "is_available", avail.result))
       IN
       IF ~avail.result
          THEN /\ calls' = Append(calls, Visit(s.key, "open"))
               /\ breaker_calls' = asked
               /\ circuit' = avail.circuit
               /\ pos' = pos + 1
               /\ UNCHANGED ret
          ELSE \E outcome \in IF Registered(s.fetcher) THEN ChipOutcomes
                                ELSE {"skipped"} :
               /\ calls' = Append(calls, Visit(s.key, outcome))
               /\ CASE outcome = "chip" ->
                         /\ circuit' = breaker_record_success(avail.circuit, s.key)
                         /\ breaker_calls' =
                                Append(asked, BreakerCall(s.key, "record_success", TRUE))
                         /\ ret' = Return(Some(s.key))
                         /\ pos' = pos
                    [] outcome \in AdapterExceptions ->
                         /\ circuit' = breaker_record_failure(avail.circuit, s.key, clock)
                         /\ breaker_calls' =
                                Append(asked, BreakerCall(s.key, "record_failure", TRUE))
                         /\ pos' = pos + 1
                         /\ UNCHANGED ret
                    [] OTHER ->
                         /\ circuit' = avail.circuit
                         /\ breaker_calls' = asked
                         /\ pos' = pos + 1
                         /\ UNCHANGED ret
    /\ UNCHANGED <<fetchers, registered, args, op, us, errors, primary_quote,
                   supplement_attempts>>
    /\ UNCHANGED <<clock, worker_pc>>
    /\ UNCHANGED <<mergeVars, snapshotVars, baseVars, stageVars, cacheVars,
                   keyVars>>

\* After the loop: every source was skipped or failed.
get_chip_distribution_exhausted ==
    /\ op = "get_chip_distribution"
    /\ ret.kind = "none"
    /\ pos > Len(CHIP_SOURCES)
    /\ ret' = Return(None)
    /\ UNCHANGED <<fetchers, registered, args, op, us, pos, errors, calls, primary_quote,
                   supplement_attempts>>
    /\ UNCHANGED <<breakerVars, mergeVars, snapshotVars, baseVars, stageVars,
                   cacheVars, keyVars>>

\* The operation has returned or raised; the circuits keep their state.
get_chip_distribution_finish ==
    /\ op = "get_chip_distribution"
    /\ ret.kind # "none"
    /\ op' = "idle"
    /\ pos' = 1
    /\ calls' = <<>>
    /\ breaker_calls' = <<>>
    /\ ret' = NoRet
    /\ UNCHANGED <<fetchers, registered, args, us, errors, primary_quote, supplement_attempts>>
    /\ UNCHANGED <<circuit, clock, worker_pc>>
    /\ UNCHANGED <<mergeVars, snapshotVars, baseVars, stageVars, cacheVars,
                   keyVars>>

(***************************************************************************)
(* Pool workers at the breaker: the three call sites of                    *)
(* get_chip_distribution, one breaker call per step                        *)
(***************************************************************************)
BreakerWorkers == {"w1", "w2"}

\* The keys the workers contend for.
WorkerKeys == {"akshare_chip", "tushare_chip"}

\* Where a worker stands: idle; refused by is_available(key); attempting the
\* adapter of key (as the trial or not); or back from an attempt whose
\* success or failure it recorded.
Worker(at, k, trial) == [at |-> at, key |-> k, trial |-> trial]
IdleWorker == Worker("idle", "", FALSE)

\* circuit_breaker.is_available(source_key) by worker w.
worker_is_available(w, k) ==
    LET avail == breaker_is_available(circuit, k, clock) IN
    /\ worker_pc[w].at # "attempt"
    /\ circuit' = avail.circuit
    /\ worker_pc' = [worker_pc EXCEPT ![w] =
            IF avail.result
               THEN Worker("attempt", k, circuit[k].state = "OPEN")
               ELSE Worker("refused", k, FALSE)]
    /\ UNCHANGED <<clock, breaker_calls>>
    /\ UNCHANGED <<managerVars, mergeVars, snapshotVars, baseVars, stageVars,
                   cacheVars, keyVars>>

\* The adapter returned a chip: circuit_breaker.record_success(source_key).
worker_record_success(w) ==
    /\ worker_pc[w].at = "attempt"
    /\ circuit' = breaker_record_success(circuit, worker_pc[w].key)
    /\ worker_pc' = [worker_pc EXCEPT ![w] = Worker("succeeded", worker_pc[w].key, FALSE)]
    /\ UNCHANGED <<clock, breaker_calls>>
    /\ UNCHANGED <<managerVars, mergeVars, snapshotVars, baseVars, stageVars,
                   cacheVars, keyVars>>

\* The adapter raised: circuit_breaker.record_failure(source_key, str(e)).
worker_record_failure(w) ==
    /\ worker_pc[w].at = "attempt"
    /\ circuit' = breaker_record_failure(circuit, worker_pc[w].key, clock)
    /\ worker_pc' = [worker_pc EXCEPT ![w] = Worker("failed", worker_pc[w].key, FALSE)]
    /\ UNCHANGED <<clock, breaker_calls>>
    /\ UNCHANGED <<managerVars, mergeVars, snapshotVars, baseVars, stageVars,
                   cacheVars, keyVars>>

\* The adapter returned None or has no chip method: nothing is recorded.
worker_no_record(w) ==
    /\ worker_pc[w].at = "attempt"
    /\ worker_pc' = [worker_pc EXCEPT ![w] = IdleWorker]
    /\ UNCHANGED <<circuit, clock, breaker_calls>>
    /\ UNCHANGED <<managerVars, mergeVars, snapshotVars, baseVars, stageVars,
                   cacheVars, keyVars>>

\* NEWSECTIONS
\* A fresh process: every circuit CLOSED, no worker at the breaker.
IdleBreaker ==
    /\ circuit = [k \in BreakerKeys |-> ClosedCircuit]
    /\ clock = 0
    /\ breaker_calls = <<>>
    /\ worker_pc = <<>>

IdleCache ==
    /\ cache = <<>>
    /\ cache_clock = 0
    /\ cache_ret = NoRet
    /\ cache_threads = [t \in CacheThreads |-> IdleThread(0)]
    /\ providers = ServiceInit({})
    /\ service = IdleService

IdleKeys == ProviderInit(<<>>)

IdleManager ==
    /\ op = "idle"
    /\ us = FALSE
    /\ pos = 1
    /\ errors = <<>>
    /\ calls = <<>>
    /\ primary_quote = None
    /\ supplement_attempts = 0
    /\ ret = NoRet

Init ==
    /\ \E names \in FetcherLists \cup {DefaultFetcherNames} : Constructed(names)
    /\ args = FetcherArgs
    /\ IdleManager
    /\ IdleMerge
    /\ IdleSnapshot
    /\ IdleBase
    /\ IdleStage
    /\ IdleBreaker
    /\ IdleCache
    /\ IdleKeys

Next ==
    \/ get_daily_data_call
    \/ get_daily_data_try
    \/ get_daily_data_exhausted
    \/ get_daily_analyzed_data_call
    \/ get_daily_analyzed_data_try
    \/ get_daily_analyzed_data_exhausted
    \/ Finish

Spec == Init /\ [][Next]_vars

(***************************************************************************)
(* Specification of the operations that walk the configured source order   *)
(***************************************************************************)
\* A FetcherArgs object on which the caller also set the two enable switches
\* that get_realtime_quote and get_chip_distribution read.
ConfiguredArgs(priority, realtime, chip) ==
    [tushare_token |-> None,
     tushare_rate_limit_per_minute |-> 80,
     realtime_source_priority |-> priority,
     enable_realtime_quote |-> realtime,
     enable_chip_distribution |-> chip]

ArgsChoices ==
    {[FetcherArgs EXCEPT !.realtime_source_priority = p] : p \in SourcePriorities}
        \cup {ConfiguredArgs(p, r, c) :
                p \in SourcePriorities, r \in BOOLEAN, c \in BOOLEAN}

\* Adapter lists for the source-order operations: the default six, and
\* explicit lists lacking some of the adapters the sources address.
SourceFetcherLists ==
    {DefaultFetchers,
     ManagerInit(<<"AkshareFetcher">>),
     ManagerInit(<<"YfinanceFetcher", "EfinanceFetcher">>)}

InitSources ==
    /\ fetchers \in SourceFetcherLists
    /\ registered = fetchers
    /\ args \in ArgsChoices
    /\ IdleManager
    /\ IdleMerge
    /\ IdleSnapshot
    /\ IdleBase
    /\ IdleStage
    /\ IdleBreaker
    /\ IdleCache
    /\ IdleKeys

NextSources ==
    \/ get_income_data_call
    \/ get_income_data_try
    \/ get_income_data_exhausted
    \/ get_all_realtime_quote_call
    \/ get_all_realtime_quote_try
    \/ get_all_realtime_quote_exhausted
    \/ get_realtime_quote_call
    \/ get_realtime_quote_us
    \/ get_realtime_quote_try
    \/ get_realtime_quote_exhausted
    \/ Finish

SpecSources == InitSources /\ [][NextSources]_vars

\* The manager at rest, with the default adapters and configuration.
RestingManager ==
    /\ Constructed(DefaultFetcherNames)
    /\ args = FetcherArgs
    /\ IdleManager

(***************************************************************************)
(* Specification of the indicator calculation on one series                *)
(***************************************************************************)
InitMetrics ==
    /\ bars \in UNION {[1..n -> BarKinds] : n \in 0..MaxBars}
    /\ metrics_ret = NoRet
    /\ stock_data = Snapshot(GoodFigures)
    /\ trend_result = None
    /\ risk_result = None
    /\ additional_result = None
    /\ RestingManager
    /\ IdleMerge
    /\ IdleBase
    /\ IdleStage
    /\ IdleBreaker
    /\ IdleCache
    /\ IdleKeys

NextMetrics ==
    \/ calculate_metrics_call
    \/ get_daily_data_with_fn_call

SpecMetrics == InitMetrics /\ [][NextMetrics]_vars

(***************************************************************************)
(* Specification of the adapter list: construction, then add_fetcher calls *)
(***************************************************************************)
add_fetcher_call ==
    /\ op = "idle"
    /\ Len(fetchers) < MaxRegistered
    /\ \E f \in AddableFetchers :
        /\ fetchers' = add_fetcher(fetchers, f)
        /\ registered' = Append(registered, f)
    /\ UNCHANGED <<args, op, us, pos, errors, calls, primary_quote,
                   supplement_attempts, ret>>
    /\ UNCHANGED <<mergeVars, snapshotVars, baseVars, stageVars, breakerVars,
                   cacheVars, keyVars>>

NextRegistry == add_fetcher_call

SpecRegistry == Init /\ [][NextRegistry]_vars

(***************************************************************************)
(* Specification of the quote merger                                       *)
(***************************************************************************)
InitMerge ==
    /\ merge_primary \in MergePrimaries
    /\ merge_secondary \in MergeSecondaries
    /\ merge_filled = None
    /\ merge_calls = 0
    /\ RestingManager
    /\ IdleSnapshot
    /\ IdleBase
    /\ IdleStage
    /\ IdleBreaker
    /\ IdleCache
    /\ IdleKeys

NextMerge == merge_quote_fields_call

SpecMerge == InitMerge /\ [][NextMerge]_vars

(***************************************************************************)
(* Specification of the sub-filters on one snapshot                        *)
(***************************************************************************)
InitSnapshot ==
    /\ stock_data \in Snapshots
    /\ trend_result = None
    /\ risk_result = None
    /\ additional_result = None
    /\ bars = <<>>
    /\ metrics_ret = NoRet
    /\ RestingManager
    /\ IdleMerge
    /\ IdleBase
    /\ IdleStage
    /\ IdleBreaker
    /\ IdleCache
    /\ IdleKeys

NextSnapshot ==
    \/ single_trend_filter_call
    \/ single_risk_filter_call
    \/ single_additional_filter_call

SpecSnapshot == InitSnapshot /\ [][NextSnapshot]_vars

(***************************************************************************)
(* Specification of the base stage                                         *)
(***************************************************************************)
InitBase ==
    /\ quote_table \in {None} \cup {Some(t) : t \in QuoteTables}
    /\ base_ret = NoRet
    /\ IdlePipeline
    /\ RestingManager
    /\ IdleMerge
    /\ IdleSnapshot
    /\ IdleStage
    /\ IdleBreaker
    /\ IdleCache
    /\ IdleKeys

NextBase == base_info_filter_call

SpecBase == InitBase /\ [][NextBase]_vars

(***************************************************************************)
(* Specification of the income and history stages                          *)
(***************************************************************************)
InitStage ==
    /\ stage = "idle"
    /\ stock_list \in StockLists
    /\ \E w \in {None} \cup {Some(n) : n \in 1..MaxWorkers}, a \in 1..MaxWorkers :
            StockFilterInit(w, a)
    /\ tasks = <<>>
    /\ completed = <<>>
    /\ collected = <<>>
    /\ stage_ret = NoRet
    /\ RestingManager
    /\ IdleMerge
    /\ IdleSnapshot
    /\ IdleBase
    /\ IdleBreaker
    /\ IdleCache
    /\ IdleKeys

NextStage ==
    \/ income_filter_call
    \/ history_info_filter_call
    \/ TaskStart
    \/ IncomeTaskFinish
    \/ HistoryTaskFinish
    \/ Collect
    \/ income_filter_return
    \/ history_info_filter_return

SpecStage == InitStage /\ [][NextStage]_vars

(***************************************************************************)
(* Specification of filter_stocks                                          *)
(***************************************************************************)
InitPipeline ==
    /\ quote_table \in {Some(t) : t \in PipelineTables}
    /\ base_ret = NoRet
    /\ IdlePipeline
    /\ stage = "idle"
    /\ stock_list = <<>>
    /\ \E w \in {None} \cup {Some(n) : n \in 1..MaxWorkers}, a \in 1..MaxWorkers :
            StockFilterInit(w, a)
    /\ tasks = <<>>
    /\ completed = <<>>
    /\ collected = <<>>
    /\ stage_ret = NoRet
    /\ RestingManager
    /\ IdleMerge
    /\ IdleSnapshot
    /\ IdleBreaker
    /\ IdleCache
    /\ IdleKeys

NextPipeline ==
    \/ filter_stocks_call
    \/ filter_stocks_fetch_all
    \/ get_all_realtime_quote_try
    \/ get_all_realtime_quote_exhausted
    \/ filter_stocks_base
    \/ filter_stocks_income
    \/ filter_stocks_income_done
    \/ filter_stocks_history
    \/ filter_stocks_return
    \/ TaskStart
    \/ IncomeTaskFinish
    \/ HistoryTaskFinish
    \/ Collect
    \/ income_filter_return
    \/ history_info_filter_return

SpecPipeline == InitPipeline /\ [][NextPipeline]_vars

(***************************************************************************)
(* Specification of the search result cache                                *)
(***************************************************************************)
InitCache ==
    /\ IdleCache
    /\ RestingManager
    /\ IdleMerge
    /\ IdleSnapshot
    /\ IdleBase
    /\ IdleStage
    /\ IdleBreaker
    /\ IdleKeys

NextCache ==
    \/ get_cached_call
    \/ put_cache_call
    \/ CacheTick

SpecCache == InitCache /\ [][NextCache]_vars

(***************************************************************************)
(* Specification of worker threads sharing the search result cache         *)
(***************************************************************************)
NextCacheThreads ==
    \/ \E t \in CacheThreads : thread_get_cached(t)
    \/ \E t \in CacheThreads : thread_get_del(t)
    \/ \E t \in CacheThreads : thread_put_cache(t)
    \/ \E t \in CacheThreads : thread_put_scan(t)
    \/ \E t \in CacheThreads : thread_put_purge(t)
    \/ \E t \in CacheThreads : thread_put_recheck(t)
    \/ \E t \in CacheThreads : thread_put_evict(t)
    \/ \E t \in CacheThreads : thread_put_insert(t)
    \/ CacheTick

SpecCacheThreads == InitCache /\ [][NextCacheThreads]_vars

(***************************************************************************)
(* Specification of one search provider's key rotation                     *)
(***************************************************************************)
InitKeys ==
    /\ \E keys \in KeyLists : ProviderInit(keys)
    /\ RestingManager
    /\ IdleMerge
    /\ IdleSnapshot
    /\ IdleBase
    /\ IdleStage
    /\ IdleBreaker
    /\ IdleCache

NextKeys ==
    \/ search_call
    \/ search_done

SpecKeys == InitKeys /\ [][NextKeys]_vars

(***************************************************************************)
(* Specification of worker threads searching with one provider             *)
(***************************************************************************)
NextKeyThreads ==
    \/ \E t \in KeyThreads : thread_search(t)
    \/ \E t \in KeyThreads : thread_record_error(t)
    \/ \E t \in KeyThreads : thread_error_store(t)
    \/ \E t \in KeyThreads : thread_record_success(t)
    \/ \E t \in KeyThreads : thread_usage_store(t)
    \/ \E t \in KeyThreads : thread_error_test(t)
    \/ \E t \in KeyThreads : thread_error_load(t)
    \/ \E t \in KeyThreads : thread_error_decrement(t)

SpecKeyThreads == InitKeys /\ [][NextKeyThreads]_vars

(***************************************************************************)
(* Specification of one provider searched by one caller at a time          *)
(***************************************************************************)
NextSearch == search

SpecSearch == InitKeys /\ [][NextSearch]_vars

(***************************************************************************)
(* Specifications of the search service: news searches, the price fallback *)
(***************************************************************************)
InitService ==
    /\ cache = <<>>
    /\ cache_clock = 0
    /\ cache_ret = NoRet
    /\ cache_threads = [t \in CacheThreads |-> IdleThread(0)]
    /\ \E configured \in ServiceConfigs : providers = ServiceInit(configured)
    /\ service = IdleService
    /\ RestingManager
    /\ IdleMerge
    /\ IdleSnapshot
    /\ IdleBase
    /\ IdleStage
    /\ IdleBreaker
    /\ IdleKeys

NextNews ==
    \/ search_stock_news_call
    \/ search_stock_news_try
    \/ search_stock_news_failed
    \/ CacheTick

SpecNews == InitService /\ [][NextNews]_vars

NextFallback ==
    \/ search_stock_price_fallback_call
    \/ search_stock_price_fallback_try
    \/ search_stock_price_fallback_return

SpecFallback == InitService /\ [][NextFallback]_vars

(***************************************************************************)
(* Specification of get_chip_distribution with its circuit breaker         *)
(***************************************************************************)
\* Adapter lists for the chip sources: the default six, and a list without
\* the Tushare adapter.
ChipFetcherLists ==
    {DefaultFetchers, ManagerInit(<<"AkshareFetcher", "EfinanceFetcher">>)}

ChipArgsChoices ==
    {FetcherArgs} \cup
        {ConfiguredArgs(FetcherArgs.realtime_source_priority, TRUE, c) : c \in BOOLEAN}

InitChip ==
    /\ fetchers \in ChipFetcherLists
    /\ registered = fetchers
    /\ args \in ChipArgsChoices
    /\ IdleManager
    /\ IdleMerge
    /\ IdleSnapshot
    /\ IdleBase
    /\ IdleStage
    /\ IdleBreaker
    /\ IdleCache
    /\ IdleKeys

NextChip ==
    \/ get_chip_distribution_call
    \/ get_chip_distribution_try
    \/ get_chip_distribution_exhausted
    \/ get_chip_distribution_finish
    \/ BreakerTick

SpecChip == InitChip /\ [][NextChip]_vars

(***************************************************************************)
(* Specification of the circuit breaker under concurrent workers           *)
(***************************************************************************)
InitBreaker ==
    /\ circuit = [k \in BreakerKeys |-> ClosedCircuit]
    /\ clock = 0
    /\ breaker_calls = <<>>
    /\ worker_pc = [w \in BreakerWorkers |-> IdleWorker]
    /\ RestingManager
    /\ IdleMerge
    /\ IdleSnapshot
    /\ IdleBase
    /\ IdleStage
    /\ IdleCache
    /\ IdleKeys

NextBreaker ==
    \/ \E w \in BreakerWorkers, k \in WorkerKeys : worker_is_available(w, k)
    \/ \E w \in BreakerWorkers : worker_record_success(w)
    \/ \E w \in BreakerWorkers : worker_record_failure(w)
    \/ \E w \in BreakerWorkers : worker_no_record(w)
    \/ BreakerTick

SpecBreaker == InitBreaker /\ [][NextBreaker]_vars

(***************************************************************************)
(* Properties                                                              *)
(***************************************************************************)
Range(seq) == {seq[i] : i \in DOMAIN seq}

DailyOps == {"get_daily_data", "get_daily_analyzed_data"}

\* C1: when get_daily_data returns, the adapters were invoked once each in
\* priority order up to the one that delivered, the data and the provider
\* name are that adapter's, and the error list has exactly one entry for
\* each adapter tried before it, naming it.
C1_FailoverCorrectness ==
    (op = "get_daily_data" /\ ret.kind = "return") =>
        LET k == Len(calls) IN
        /\ k \in 1..Len(fetchers)
        /\ \A i \in 1..k : calls[i].source = fetchers[i].name
        /\ Get(ret.value).data = fetchers[k].name
        /\ Get(ret.value).provider = Some(fetchers[k].name)
        /\ Len(errors) = k - 1
        /\ \A i \in 1..(k - 1) : errors[i][1] = fetchers[i].name

\* C2: when get_daily_data or get_daily_analyzed_data raises, it raises
\* DataFetchError and the message has one entry for every registered
\* adapter, naming that adapter.
C2_ExhaustionMessage ==
    (op \in DailyOps /\ ret.kind = "raise") =>
        /\ ret.exc = "DataFetchError"
        /\ Len(ret.message) = Len(fetchers)
        /\ \A i \in 1..Len(fetchers) : ret.message[i][1] = fetchers[i].name

\* C3: an exception of an adapter call never ends the operation, the loop
\* moves on to the next source, and the only exception a manager operation
\* ends with is the aggregated DataFetchError of the daily operations after
\* every source was tried.
C3_OnlyAggregatedError ==
    /\ \A i \in DOMAIN calls :
          calls[i].outcome \in AdapterExceptions =>
              /\ ~(ret.kind = "raise" /\ ret.exc = calls[i].outcome)
              /\ i < Len(calls) \/ pos > i \/ ret.kind = "return"
    /\ ret.kind = "raise" =>
          /\ ret.exc = "DataFetchError"
          /\ op \in DailyOps
          /\ pos > Len(fetchers)

\* The seven trend conditions, on the snapshot's figures.
StatedTrend(d) ==
    /\ d["amount_ma20"] >= 30
    /\ d["amount"] * 10 >= d["amount_ma20"] * 13
    /\ d["ema200"] < d["close"]
    /\ d["ema200_slope"] >= -5
    /\ d["gloden_cross_days"] >= 1
    /\ d["cross_count_10d"] <= 1
    /\ d["macd_histogram"] >= 0

\* The five risk flags, on the snapshot's figures.
StatedRiskFlags(d) ==
    {f \in {"deviation", "inc20", "inc60", "atr", "boll"} :
        CASE f = "deviation" -> Abs(d["ema200_deviation_rate"]) > 1500
          [] f = "inc20" -> d["20d_inc"] > 2500
          [] f = "inc60" -> d["60d_inc"] > 5000
          [] f = "atr" -> d["atr_rate"] > 400
          [] f = "boll" -> d["bb_percent_b1"] > 90 /\ d["bb_percent_b2"] > 90}

StatedRisk(d) ==
    /\ Abs(d["ema200_deviation_rate"]) <= 2500
    /\ Cardinality(StatedRiskFlags(d)) <= 1

StatedAdditional(d) == d["ema50"] >= d["ema200"]

\* C4: history_info_filter returns exactly the candidates for which a
\* snapshot was obtained that passes the trend, risk and additional
\* conditions.
C4_HistoryExactly ==
    (stage = "history" /\ stage_ret # NoRet) =>
        /\ stage_ret.kind = "return"
        /\ Range(stage_ret.value) =
              {stock_list[i] : i \in
                  {j \in DOMAIN tasks :
                      /\ tasks[j].fetched # None
                      /\ StatedTrend(Get(tasks[j].fetched))
                      /\ StatedRisk(Get(tasks[j].fetched))
                      /\ StatedAdditional(Get(tasks[j].fetched))}}

\* C5: _single_trend_filter returns true exactly for the snapshots that meet
\* all seven trend conditions, and false for all others.
C5_TrendIff ==
    trend_result # None =>
        Get(trend_result) = ReturnValue(StatedTrend(stock_data))

\* C6: _single_risk_filter fails when |ema200_deviation_rate| > 25, and
\* otherwise passes exactly when at most one of the five risk flags is set.
C6_RiskFilter ==
    risk_result # None =>
        Get(risk_result) = ReturnValue(StatedRisk(stock_data))

\* C6 witness: deviation 20 and atr_rate 5 with no other flag is rejected.
C6_Witness ==
    /\ risk_result = Some(ReturnValue(FALSE))
    /\ stock_data["ema200_deviation_rate"] = 2000
    /\ stock_data["atr_rate"] = 500
    /\ stock_data["20d_inc"] = 1000
    /\ stock_data["60d_inc"] = 1000
    /\ stock_data["bb_percent_b1"] = 50

NameHasST(name) ==
    \E i \in 1..(Len(name) - 1) : name[i] = "S" /\ name[i + 1] = "T"

\* C7: base_info_filter returns, in table order, the codes of exactly the
\* rows whose name has no "ST" and whose amount and total_mv lie strictly
\* above 200,000,000 and 5,000,000,000.
C7_BaseFilter ==
    (base_ret # NoRet /\ quote_table # None) =>
        LET table == Get(quote_table)
            kept == {i \in DOMAIN table :
                        /\ ~NameHasST(table[i].name)
                        /\ table[i].amount > 20
                        /\ table[i].total_mv > 500}
        IN
        /\ base_ret.kind = "return"
        /\ Len(base_ret.value) = Cardinality(kept)
        /\ Range(base_ret.value) = {table[i].code : i \in kept}
        /\ \A a, b \in DOMAIN base_ret.value :
              a < b => \E i, j \in kept :
                          /\ i < j
                          /\ table[i].code = base_ret.value[a]
                          /\ table[j].code = base_ret.value[b]

\* C7 witness: a row named "ST." above both thresholds is left out while
\* another row is returned.
C7_Witness ==
    /\ base_ret.kind = "return"
    /\ quote_table # None
    /\ \E i \in DOMAIN Get(quote_table) :
          /\ Get(quote_table)[i].name = <<"S", "T", "b">>
          /\ Get(quote_table)[i].amount > 20
          /\ Get(quote_table)[i].total_mv > 500
          /\ Get(quote_table)[i].code \notin Range(base_ret.value)
    /\ base_ret.value # <<>>

\* C8: income_filter returns exactly the input candidates whose fetched
\* income growth is at least 0.10.
C8_IncomeExactly ==
    (stage = "income" /\ stock_list # <<>> /\ stage_ret # NoRet) =>
        /\ stage_ret.kind = "return"
        /\ Range(stage_ret.value) =
              {stock_list[i] : i \in
                  {j \in DOMAIN tasks :
                      /\ tasks[j].fetched # None
                      /\ Get(tasks[j].fetched).income_inc >= 10}}

\* C9: a stage whose acquisition failed for some or all candidates still
\* returns normally, without the failed candidates, and with an empty list
\* when acquisition failed for every candidate.
C9_FailureExcludesOnlyCandidate ==
    (stage \in {"income", "history"} /\ stock_list # <<>> /\ stage_ret # NoRet) =>
        /\ stage_ret.kind = "return"
        /\ \A i \in DOMAIN tasks :
              tasks[i].fetched = None => stock_list[i] \notin Range(stage_ret.value)
        /\ (\A i \in DOMAIN tasks : tasks[i].fetched = None) => stage_ret.value = <<>>

\* C10: a call of _merge_quote_fields sets exactly the supplementable fields
\* that were None in primary and not None in secondary to secondary's value,
\* leaves every other field of primary and all of secondary as they were,
\* and returns the names of the filled fields in the fixed order.
C10_MergeFrame ==
    [][(merge_filled = None /\ merge_filled' # None) =>
        LET order == <<"volume_ratio", "turnover_rate", "pe_ratio", "pb_ratio",
                       "total_mv", "circ_mv", "amplitude">>
            Fills(f) == merge_primary[f] = None /\ merge_secondary[f] # None
        IN
        /\ \A f \in DOMAIN merge_primary :
              merge_primary'[f] =
                  IF f \in Range(order) /\ Fills(f) THEN merge_secondary[f]
                  ELSE merge_primary[f]
        /\ DOMAIN merge_primary' = DOMAIN merge_primary
        /\ merge_secondary' = merge_secondary
        /\ merge_filled' = Some(SelectSeq(order, Fills))]_vars

\* C10 witness: a call filled volume_ratio and pe_ratio, kept a primary
\* value where secondary also had one, and left price None although
\* secondary carries a price.
C10_Witness ==
    /\ merge_filled = Some(<<"volume_ratio", "pe_ratio">>)
    /\ merge_primary["volume_ratio"] = Some(1)
    /\ merge_primary["turnover_rate"] = Some(0)
    /\ merge_secondary["turnover_rate"] = Some(1)
    /\ merge_primary["price"] = None
    /\ merge_secondary["price"] = Some(1)

\* C11: a second call of _merge_quote_fields with the same secondary leaves
\* primary exactly as the first call left it and returns an empty list.
C11_MergeIdempotent ==
    [][(merge_calls >= 1 /\ merge_calls' = merge_calls + 1) =>
        /\ merge_primary' = merge_primary
        /\ merge_secondary' = merge_secondary
        /\ merge_filled' = Some(<<>>)]_vars

\* C11 witness: a second call has returned the empty list on a primary whose
\* volume_ratio and pe_ratio the first call had filled.
C11_Witness ==
    /\ merge_calls = 2
    /\ merge_filled = Some(<<>>)
    /\ merge_primary["volume_ratio"] = Some(1)
    /\ merge_primary["pe_ratio"] = Some(1)
    /\ merge_primary["amplitude"] = None

\* C12: in get_realtime_quote, once a primary quote has been obtained, no
\* further source is invoked when the primary had no null supplementable
\* field, and otherwise at most one further source is invoked, whatever that
\* source delivers.  (A quote's price carries the position of the source that
\* delivered it, and calls has one entry per position walked.)
C12_SupplementLimit ==
    (op = "get_realtime_quote" /\ ~us /\ primary_quote # None) =>
        LET primary == Get(primary_quote)
            p == Get(primary["price"])
            invokedLater ==
                {i \in DOMAIN calls :
                    i > p /\ calls[i].outcome \notin {"skipped", "unsupported"}}
        IN
        /\ Cardinality(invokedLater) <= 1
        /\ (\A f \in SupplementFieldSet : primary[f] = Some(p)) => invokedLater = {}

\* A step that is a call of _get_cached / of _put_cache.
IsGetStep ==
    /\ cache_ret'.kind = "get"
    /\ cache_clock' = cache_clock
    /\ <<cache, cache_ret>>' # <<cache, cache_ret>>

IsPutStep ==
    /\ cache_ret'.kind = "put"
    /\ cache_clock' = cache_clock
    /\ <<cache, cache_ret>>' # <<cache, cache_ret>>

C14_CacheBounded ==
    /\ Len(cache) <= MAX_CACHE_SIZE
    /\ \A i, j \in DOMAIN cache : cache[i].key = cache[j].key => i = j
    /\ cache_ret.kind = "put" =>
            \E i \in DOMAIN cache :
                /\ cache[i].key = cache_ret.key
                /\ cache[i].response = cache_ret.response

\* C14 witness: a _put_cache on a full cache purged one expired entry and
\* left the cache full again.
C14_Witness ==
    /\ cache_ret.kind = "put"
    /\ Len(cache_ret.expired) = 1
    /\ cache_ret.oldest = <<>>
    /\ Len(cache) = MAX_CACHE_SIZE

\* C15: a _put_cache on a cache at capacity deletes every expired entry;
\* it deletes unexpired entries only if the cache is still at capacity after
\* that, then in ascending timestamp order and just enough of them to leave
\* one free slot, so that no surviving entry is older than a deleted
\* unexpired one; nothing else is deleted.
C15_EvictionOrder ==
    [][(IsPutStep /\ Len(cache) >= MAX_CACHE_SIZE) =>
        LET Ts(k) == CacheEntry(cache, k).ts
            expired == {k \in CacheKeySet(cache) : cache_clock - Ts(k) > CACHE_TTL}
            oldest == cache_ret'.oldest
            survivors == (CacheKeySet(cache) \ expired) \ Range(oldest)
        IN
        /\ Range(cache_ret'.expired) = expired
        /\ Range(oldest) \cap expired = {}
        /\ Range(oldest) \subseteq CacheKeySet(cache)
        /\ \A i, j \in DOMAIN oldest : i < j =>
                oldest[i] # oldest[j] /\ Ts(oldest[i]) <= Ts(oldest[j])
        /\ oldest # <<>> =>
                /\ Len(cache) - Cardinality(expired) >= MAX_CACHE_SIZE
                /\ Cardinality(survivors) = MAX_CACHE_SIZE - 1
        /\ oldest = <<>> => Cardinality(survivors) < MAX_CACHE_SIZE
        /\ \A k \in Range(oldest), j \in survivors : Ts(k) <= Ts(j)
        /\ CacheKeySet(cache') = survivors \cup {cache_ret'.key}
        /\ \A k \in survivors \ {cache_ret'.key} :
                CacheEntry(cache', k) = CacheEntry(cache, k)]_vars

\* C15 witness: a _put_cache on a full cache without expired entries deleted
\* the one oldest entry, and the entries that survived it differ in age.
C15_Witness ==
    /\ cache_ret.kind = "put"
    /\ cache_ret.expired = <<>>
    /\ Len(cache_ret.oldest) = 1
    /\ Len(cache) = MAX_CACHE_SIZE
    /\ cache[1].ts < cache[2].ts

\* A step in which _get_next_key ran on a provider with keys.
IsKeyStep ==
    /\ api_keys # <<>>
    /\ Len(key_inflight') = Len(key_inflight) + 1

\* C16: with keys configured _get_next_key always returns a key; if some key
\* has fewer than 3 errors it returns the first such key in cyclic order
\* from where the rotation stands and moves the rotation past it, leaving
\* the counters alone; if every key has 3 errors or more it resets every
\* counter to 0 and returns the first configured key.
C16_KeyRotation ==
    [][IsKeyStep =>
        LET n == Len(api_keys)
            At(d) == ((key_cycle - 1 + d) % n) + 1
            fresh == {i \in 1..n : key_errors[api_keys[i]] < 3}
        IN
        /\ key_ret'.value # None
        /\ key_inflight'[Len(key_inflight')] = Get(key_ret'.value)
        /\ IF fresh # {}
              THEN \E d \in 0..(n - 1) :
                      /\ At(d) \in fresh
                      /\ \A e \in 0..(d - 1) : At(e) \notin fresh
                      /\ key_ret'.value = Some(api_keys[At(d)])
                      /\ key_cycle' = At(d + 1)
                      /\ key_errors' = key_errors
              ELSE /\ key_ret'.value = Some(api_keys[1])
                   /\ key_errors' = [k \in DOMAIN key_errors |-> 0]
                   /\ key_cycle' = key_cycle]_vars

\* C16 witness: of three keys the first two were passed over for their
\* errors and the third was handed out.
C16_Witness ==
    /\ api_keys = <<"k1", "k2", "k3">>
    /\ key_ret.kind = "get_next_key"
    /\ key_ret.skipped = 2
    /\ key_ret.value = Some("k3")
    /\ key_errors["k1"] >= 3
    /\ key_errors["k2"] >= 3

\* The adapter was called (not passed over for a missing adapter or method,
\* nor for an open circuit).
Invoked(c) == c.outcome \notin {"skipped", "unsupported", "open"}

\* C17: in a failover operation every adapter that is invoked was found
\* available by is_available for its key in that iteration, and a source
\* whose key was found not available is not invoked.
C17_BreakerGate ==
    op # "idle" =>
        /\ \A i \in DOMAIN calls : Invoked(calls[i]) =>
                \E j \in DOMAIN breaker_calls :
                    breaker_calls[j] = BreakerCall(calls[i].source, "is_available", TRUE)
        /\ \A j \in DOMAIN breaker_calls :
                (breaker_calls[j].call = "is_available" /\ ~breaker_calls[j].result) =>
                    \A i \in DOMAIN calls :
                        calls[i].source = breaker_calls[j].key => ~Invoked(calls[i])

\* C18: in get_chip_distribution every adapter attempt is followed, before
\* the next source is looked at, by exactly one breaker update for its key:
\* record_success for a chip, record_failure for an exception or None.
C18_RecordEveryAttempt ==
    op = "get_chip_distribution" =>
        \A i \in DOMAIN calls : Invoked(calls[i]) =>
            LET updates == {j \in DOMAIN breaker_calls :
                                /\ breaker_calls[j].key = calls[i].source
                                /\ breaker_calls[j].call # "is_available"}
            IN
            /\ Cardinality(updates) = 1
            /\ \A j \in updates :
                    /\ breaker_calls[j].call =
                            IF calls[i].outcome = "chip" THEN "record_success"
                            ELSE "record_failure"
                    /\ \A m \in DOMAIN breaker_calls :
                            (\E n \in (i + 1)..Len(calls) :
                                breaker_calls[m].key = calls[n].source) => j < m

\* Worker w makes the breaker call that takes it to the resting place `at`.
WorkerStep(w, at) == worker_pc'[w] # worker_pc[w] /\ worker_pc'[w].at = at

\* Worker w calls is_available(k).
AsksStep(w, k) ==
    /\ worker_pc[w].at # "attempt"
    /\ worker_pc'[w] # worker_pc[w]
    /\ worker_pc'[w].at \in {"attempt", "refused"}
    /\ worker_pc'[w].key = k

\* C19: the failure that completes a run of failure_threshold consecutive
\* record_failure(K) opens the circuit of K, a shorter run leaves it CLOSED
\* and available; while the cooldown since opening has not elapsed the
\* circuit stays as it is and every is_available(K) is refused; and no
\* breaker call for another key changes the circuit of K.
C19_OpensAfterThreshold ==
    [][\A k \in BreakerKeys, w \in BreakerWorkers :
        /\ (WorkerStep(w, "failed") /\ worker_pc[w].key = k
                /\ circuit[k].state = "CLOSED") =>
              IF circuit[k].failures + 1 >= 3
                 THEN /\ circuit'[k].state = "OPEN"
                      /\ circuit'[k].opened_at = clock
                 ELSE /\ circuit'[k].state = "CLOSED"
                      /\ circuit'[k].failures = circuit[k].failures + 1
        /\ circuit[k].state = "CLOSED" => circuit[k].failures < 3
        /\ (AsksStep(w, k) /\ circuit[k].state = "CLOSED") =>
              worker_pc'[w].at = "attempt"
        /\ (circuit[k].state = "OPEN" /\ clock' - circuit[k].opened_at < COOLDOWN) =>
              /\ circuit'[k] = circuit[k]
              /\ AsksStep(w, k) => worker_pc'[w].at = "refused"
        /\ (worker_pc'[w] # worker_pc[w] /\ worker_pc'[w].key # k
                /\ worker_pc[w].key # k) =>
              circuit'[k] = circuit[k]]_vars

\* C19 witness: a worker was refused on a circuit that three failures had
\* opened, while the other key, with two failures, is closed and in use.
C19_Witness ==
    /\ circuit["akshare_chip"].state = "OPEN"
    /\ clock - circuit["akshare_chip"].opened_at < COOLDOWN
    /\ worker_pc["w1"] = Worker("refused", "akshare_chip", FALSE)
    /\ circuit["tushare_chip"] = [state |-> "CLOSED", failures |-> 2, opened_at |-> 0]
    /\ worker_pc["w2"] = Worker("attempt", "tushare_chip", FALSE)

C21_ConcurrentCacheSafe ==
    /\ \A t \in CacheThreads : cache_threads[t].ret.kind # "raise"
    /\ Len(cache) <= MAX_CACHE_SIZE

\* The values the error counter of one key can have after `n` errors and `m`
\* successes recorded one after the other, in any order, starting from `e`.
RECURSIVE SequentialErrors(_, _, _)
SequentialErrors(n, m, e) ==
    IF n = 0 /\ m = 0 THEN {e}
    ELSE (IF n > 0 THEN SequentialErrors(n - 1, m, e + 1) ELSE {})
         \cup (IF m > 0 THEN SequentialErrors(n, m - 1, IF e > 0 THEN e - 1 ELSE 0)
                        ELSE {})

\* C22: concurrent search() calls on one provider lose no counter update:
\* once the calls are over, with n errors and m successes recorded on key k
\* and no reset in between, the usage counter of k is m and its error counter
\* is what some sequential order of those calls produces.
C22_NoLostUpdate ==
    (/\ \A t \in KeyThreads : key_threads[t].pc = "idle"
     /\ key_log.resets = 0)
    => \A k \in DOMAIN key_errors :
          /\ key_usage[k] = key_log.successes[k]
          /\ key_errors[k] \in
                SequentialErrors(key_log.errors[k], key_log.successes[k], 0)

\* The adapters of `s` that have priority `p`, in the order of `s`.
WithPriority(s, p) == SelectSeq(s, LAMBDA f : f.priority = p)

\* C23: after construction and after any sequence of add_fetcher calls the
\* adapter list is sorted ascending by priority, and adapters of equal
\* priority stand in the order in which they were inserted.
C23_SortedByPriority ==
    /\ Len(fetchers) = Len(registered)
    /\ \A i, j \in DOMAIN fetchers :
          i < j => fetchers[i].priority <= fetchers[j].priority
    /\ \A p \in {registered[i].priority : i \in DOMAIN registered} :
          WithPriority(fetchers, p) = WithPriority(registered, p)

\* A list built by the constructor and two add_fetcher calls, in which an
\* added adapter shares its priority with an earlier one of another class and
\* the insertion order is not the priority order.
C23_Witness ==
    /\ Len(registered) = 5
    /\ registered # fetchers
    /\ \E i \in DOMAIN fetchers :
          /\ i < Len(fetchers)
          /\ fetchers[i].priority = fetchers[i + 1].priority
          /\ fetchers[i].name # fetchers[i + 1].name
          /\ fetchers[i + 1] = registered[5]

\* The bars (counted from 1) at which EMA5 stands above EMA10 and stood at or
\* below it on the bar before.
GoldenCrossBars(df) ==
    {i \in 2..Len(df) : /\ df[i].ema5 > df[i].ema10
                        /\ df[i - 1].ema5 <= df[i - 1].ema10}

MaxOf(S) == CHOOSE x \in S : \A y \in S : y <= x

\* C24: gloden_cross_days is the number of bars between the most recent
\* golden cross and the end of the series, and -1 when the series has no
\* golden cross; one crossing 7 bars before the end gives 7, a crossing on the
\* last bar gives 0.
C24_GoldenCrossDays ==
    (metrics_ret # NoRet /\ metrics_ret.kind = "return") =>
        LET days == metrics_ret.result.value.gloden_cross_days
            crossings == GoldenCrossBars(bars) IN
        /\ crossings = {} => days = -1
        /\ crossings # {} => days = Len(bars) - MaxOf(crossings)
        /\ crossings = {Len(bars) - 7} => days = 7
        /\ Len(bars) \in crossings => days = 0

\* A series with exactly one golden cross, 7 bars before its end.
C24_Witness ==
    /\ metrics_ret # NoRet
    /\ metrics_ret.fn = "_calculate_metrics"
    /\ metrics_ret.kind = "return"
    /\ GoldenCrossBars(bars) = {Len(bars) - 7}
    /\ metrics_ret.result.value.gloden_cross_days = 7

\* C25: a cleaned series too short for the 60-bar lookback gives no
\* indicator set: _calculate_metrics raises and get_daily_data_with_fn raises
\* DataFetchError; on a longer series 20d_inc and 60d_inc compare the last
\* close with the closes exactly 20 and 60 bars before it.
C25_InsufficientData ==
    metrics_ret # NoRet =>
        IF Len(bars) < INC_60D_BARS + 1
           THEN /\ metrics_ret.kind = "raise"
                /\ metrics_ret.fn = "get_daily_data_with_fn"
                      => metrics_ret.result.exc = "DataFetchError"
           ELSE /\ metrics_ret.kind = "return"
                /\ metrics_ret.result.value.inc_20d =
                      Increase(bars[Len(bars)].close,
                               bars[Len(bars) - INC_20D_BARS].close)
                /\ metrics_ret.result.value.inc_60d =
                      Increase(bars[Len(bars)].close,
                               bars[Len(bars) - INC_60D_BARS].close)

\* A series one bar short of the 60-bar lookback, refused as an adapter
\* failure.
C25_Witness ==
    /\ Len(bars) = INC_60D_BARS
    /\ metrics_ret # NoRet
    /\ metrics_ret.fn = "get_daily_data_with_fn"
    /\ metrics_ret.result = RaiseError("DataFetchError")

\* C26: get_realtime_quote never returns a quote that lacks basic data (price
\* and name), for US codes as for every other stock code.
C26_UsableQuote ==
    (op = "get_realtime_quote" /\ ret.kind = "return" /\ ret.value # None)
        => has_basic_data(Get(ret.value))

\* C27: a successful get_daily_data or get_daily_analyzed_data returns the
\* data together with the name of the adapter that produced it, which is the
\* adapter whose call succeeded (the last one invoked).
C27_ProviderName ==
    (op \in DailyOps /\ ret.kind = "return") =>
        /\ Get(ret.value).data = calls[Len(calls)].source
        /\ Get(ret.value).provider = Some(calls[Len(calls)].source)

\* C29: at every moment of income_filter and history_info_filter the number
\* of tasks running at once is at most the StockFilter's configured maximum
\* worker count: the max_workers constructor argument when one is given and
\* args.max_workers otherwise.
C29_WorkerLimit ==
    stage \in {"income", "history"} => Cardinality(Running) <= self_max_workers

\* C28: when no bulk realtime-quote source delivers (each one fails, returns
\* null or is no bulk-capable source name), get_all_realtime_quote returns
\* null and filter_stocks ends by returning an empty result, not with an
\* unhandled error.
C28_DegradesToEmpty ==
    (pipeline = "done" /\ op = "get_all_realtime_quote" /\ ret = Return(None))
        => pipeline_ret = ReturnValue(<<>>)

\* C30, stage order: a stage runs only while filter_stocks is at it, on the
\* list the previous stage returned, and the results are nested.
StagesNested ==
    /\ stage = "income" =>
          /\ pipeline \in {"income", "done"}
          /\ base_ret.kind = "return"
          /\ stock_list = base_ret.value
          /\ stage_outputs.income = None
    /\ stage = "history" =>
          /\ pipeline \in {"history", "done"}
          /\ stage_outputs.base = Some(base_ret.value)
          /\ stage_outputs.income = Some(stock_list)
          /\ Range(stock_list) \subseteq Range(base_ret.value)
    /\ (pipeline = "done" /\ pipeline_ret.kind = "return") =>
          /\ stage = "history"
          /\ Range(pipeline_ret.value) \subseteq Range(Get(stage_outputs.income))
          /\ Range(Get(stage_outputs.income)) \subseteq Range(Get(stage_outputs.base))

\* C30, completion: when a stage is over, every one of its worker tasks has
\* finished and has been collected.
StageCompleted ==
    stage_ret' # stage_ret /\ stage_ret'.kind # "none"
        => \A i \in DOMAIN tasks : tasks[i].state = "collected"

\* C30: filter_stocks runs base_info_filter, income_filter and
\* history_info_filter strictly in that order, each stage starting only
\* after the previous one has completed with all of its worker tasks
\* finished, and receiving exactly the previous stage's output; the final
\* result is a subset of the income stage's output, which is a subset of the
\* base stage's output.
C30_StagesInOrder == []StagesNested /\ [][StageCompleted]_vars

\* filter_stocks returned after the base stage had passed two candidates on,
\* the income stage one of them, and the history stage had run its one task.
C30_Witness ==
    /\ pipeline = "done"
    /\ pipeline_ret.kind = "return"
    /\ stage = "history"
    /\ Len(tasks) = 1
    /\ Len(Get(stage_outputs.income)) = 1
    /\ Len(Get(stage_outputs.base)) = 2

\* C32: _get_cached returns the stored response only while the entry's age
\* is strictly less than the TTL; at an age equal to the TTL, as at any
\* greater age, it returns a miss and removes the entry.
C32_StrictTTL ==
    [][IsGetStep =>
        \A i \in DOMAIN cache : cache[i].key = cache_ret'.key =>
            IF cache_clock - cache[i].ts < CACHE_TTL
               THEN cache_ret'.value = Some(cache[i].response)
               ELSE /\ cache_ret'.value = None
                    /\ cache_ret'.key \notin CacheKeySet(cache')]_vars

\* C38: a _put_cache of a key that is already in the cache replaces that
\* key's timestamp and response only; every other unexpired entry is still
\* there afterwards, unchanged, also when the cache is at capacity.
C38_ReinsertKeepsOthers ==
    [][(IsPutStep /\ cache_ret'.key \in CacheKeySet(cache)) =>
        \A i \in DOMAIN cache :
            (/\ cache[i].key # cache_ret'.key
             /\ ~IsExpired(cache[i].ts, cache_clock))
                => \E j \in DOMAIN cache' : cache'[j] = cache[i]]_vars

\* Bars at which ema5 crosses ema10 in either direction; the first bar has
\* no bar before it and is none of them.
CrossBars(df) ==
    {i \in DOMAIN df :
        /\ i > 1
        /\ \/ df[i].ema5 > df[i].ema10 /\ df[i - 1].ema5 <= df[i - 1].ema10
           \/ df[i].ema5 < df[i].ema10 /\ df[i - 1].ema5 >= df[i - 1].ema10}

\* The last CROSS_WINDOW bars of the series, or all of a shorter series.
LastBars(df) == {i \in DOMAIN df : i > Len(df) - CROSS_WINDOW}

\* C33: cross_count_10d is the number of bars among the last 10 bars of the
\* series (among all bars of a shorter series) at which a golden or a death
\* cross of ema5 against ema10 occurs; older crossings are not counted and
\* the first bar of a series is never a crossing.
C33_CrossCount ==
    /\ cross_count(bars) = Cardinality(CrossBars(bars) \cap LastBars(bars))
    /\ bars # <<>> => ~is_golden_cross(bars)[1] /\ ~is_death_cross(bars)[1]
    /\ (metrics_ret # NoRet /\ metrics_ret.kind = "return") =>
            metrics_ret.result.value.cross_count_10d =
                Cardinality(CrossBars(bars) \cap LastBars(bars))

\* A series with crossings before and inside the window, of which only the
\* one inside was counted.
C33_Witness ==
    /\ metrics_ret # NoRet
    /\ metrics_ret.fn = "_calculate_metrics"
    /\ metrics_ret.kind = "return"
    /\ metrics_ret.result.value.cross_count_10d = 1
    /\ Cardinality(CrossBars(bars) \ LastBars(bars)) = 2
    /\ bars[1].ema5 > bars[1].ema10

\* A step that is one whole search() call.
IsSearchStep == search_count' = search_count + 1

\* Outcomes recorded for key k so far.
Recorded(log, k) == log.successes[k] + log.errors[k]

\* C35: search never raises: an exception of _do_search comes back as a
\* SearchResponse with success = false that carries the error message; and a
\* call that obtained a key records exactly one outcome for that key, a
\* success when the response is successful and an error otherwise.
C35_SearchNeverRaises ==
    [][IsSearchStep =>
        LET r == search_ret' IN
        /\ r.ret.kind = "return"
        /\ (r.outcome # None /\ Get(r.outcome).kind = "raise") =>
              /\ ~r.ret.value.success
              /\ r.ret.value.error_message = Some(Get(r.outcome).message)
        /\ r.key = None => key_log' = key_log
        /\ r.key # None =>
              LET k == Get(r.key) IN
              /\ Recorded(key_log', k) = Recorded(key_log, k) + 1
              /\ \A j \in DOMAIN key_errors \ {k} :
                    Recorded(key_log', j) = Recorded(key_log, j)
              /\ r.ret.value.success <=>
                    key_log'.successes[k] = key_log.successes[k] + 1]_vars

\* C35 witness: _do_search raised, the caller got a failed response with the
\* message, and the error was recorded on the key.
C35_Witness ==
    /\ search_ret # NoRet
    /\ search_ret.key = Some("k2")
    /\ Get(search_ret.outcome).kind = "raise"
    /\ search_ret.ret.kind = "return"
    /\ search_ret.ret.value.error_message = Some("timed out")
    /\ key_log.errors["k2"] = 1
    /\ key_log.successes["k1"] = 1

\* C37, step: a success takes one error off a positive counter, an error adds
\* one, no other counter moves, and a key whose counter stands at 3 is handed
\* out only by the reset of all counters.
KeyCounterStep ==
    (IsSearchStep /\ search_ret'.key # None) =>
        LET k == Get(search_ret'.key)
            full_reset == \A j \in DOMAIN key_errors :
                              key_errors[j] >= KEY_ERROR_LIMIT
            before == IF full_reset THEN [j \in DOMAIN key_errors |-> 0]
                      ELSE key_errors
        IN
        /\ key_errors[k] >= KEY_ERROR_LIMIT => full_reset
        /\ \A j \in DOMAIN key_errors \ {k} : key_errors'[j] = before[j]
        /\ key_errors'[k] =
              IF search_ret'.ret.value.success
                 THEN (IF before[k] > 0 THEN before[k] - 1 ELSE 0)
                 ELSE before[k] + 1

\* C37: with one search at a time every key's error counter stays within
\* 0..3: a success decrements a positive counter by one and never below 0, an
\* error increments it by one, and a key is not handed out again once its
\* counter has reached 3 until all counters are reset.
C37_KeyErrorsBounded ==
    /\ [](\A k \in DOMAIN key_errors : key_errors[k] \in 0..KEY_ERROR_LIMIT)
    /\ [][KeyCounterStep]_vars

\* C37 witness: the first key stands at 3 errors and was passed over, the
\* search went to the second key and took one of its errors back.
C37_Witness ==
    /\ api_keys = <<"k1", "k2">>
    /\ key_errors["k1"] = KEY_ERROR_LIMIT
    /\ search_ret # NoRet
    /\ search_ret.key = Some("k2")
    /\ search_ret.ret.value.success
    /\ key_log.errors["k2"] = 1
    /\ key_errors["k2"] = 0

\* The verdict on a candidate as its fetch outcome alone decides it: the
\* snapshot was obtained and _history_info_filter returns True on it.
Passes(fetched) ==
    /\ fetched # None
    /\ history_info_filter_task(Get(fetched)) = ReturnValue(TRUE)

\* A finished task is not run again: its outcome and its rank stay.
EvaluatedOnce ==
    \A i \in DOMAIN tasks :
        (i \in Finished /\ stage' = stage) =>
            /\ i \in DOMAIN tasks'
            /\ tasks'[i].fetched = tasks[i].fetched
            /\ tasks'[i].result = tasks[i].result
            /\ tasks'[i].order = tasks[i].order

\* C36: for fixed per-candidate fetch outcomes history_info_filter returns
\* the same set of codes whatever the order in which the worker tasks start
\* and finish: the codes of the candidates whose own outcome passes, each at
\* most once, every candidate having been evaluated exactly once.
C36_OrderIndependent ==
    /\ []((stage = "history" /\ stage_ret # NoRet) =>
            /\ stage_ret.kind = "return"
            /\ Range(stage_ret.value) =
                    {stock_list[i] : i \in {j \in DOMAIN tasks : Passes(tasks[j].fetched)}}
            /\ \A i, j \in DOMAIN stage_ret.value :
                    stage_ret.value[i] = stage_ret.value[j] => i = j
            /\ Len(tasks) = Len(stock_list)
            /\ {tasks[i].order : i \in DOMAIN tasks} = 1..Len(tasks)
            /\ \A i \in DOMAIN tasks : tasks[i].state = "collected")
    /\ [][EvaluatedOnce]_vars

\* history_info_filter returned after its three tasks had finished second,
\* third, first in the order of submission, the first without a snapshot and
\* the others with different snapshots.
C36_Witness ==
    /\ stage = "history"
    /\ stage_ret.kind = "return"
    /\ Len(tasks) = 3
    /\ tasks[2].order = 1
    /\ tasks[3].order = 2
    /\ tasks[1].order = 3
    /\ tasks[1].fetched = None
    /\ tasks[2].fetched # None
    /\ tasks[3].fetched # None
    /\ tasks[2].fetched # tasks[3].fetched

\* Position of a provider in the fixed order Bocha, Tavily, Brave, SerpAPI.
ProviderRank(name) == CHOOSE i \in DOMAIN PROVIDER_ORDER : PROVIDER_ORDER[i] = name

\* A response that is successful and has at least one result.
UsableResponse(response) == response.success /\ Len(response.results) > 0

\* C34, states: the providers stand in the fixed order; the providers a
\* search_stock_news call has searched are the available ones in that order,
\* none of them but the last having delivered; the call returns the first
\* usable response, or a failed one after all providers; the cache holds
\* usable responses only.
NewsFailover ==
    /\ \A i, j \in DOMAIN providers :
          i < j => ProviderRank(providers[i].name) < ProviderRank(providers[j].name)
    /\ \A i \in DOMAIN cache : UsableResponse(cache[i].response)
    /\ service.op = "search_stock_news" =>
          /\ Len(service.tried) <= Len(providers)
          /\ \A i \in DOMAIN service.tried :
                /\ service.tried[i].provider = providers[i].name
                /\ i < Len(service.tried) => ~service.tried[i].accepted
          /\ (service.ret # NoRet /\ service.tried # <<>>) =>
                LET response == service.ret.value
                    n == Len(service.tried)
                IN
                IF UsableResponse(response)
                   THEN /\ response.provider = providers[n].name
                        /\ service.tried[n].accepted
                   ELSE /\ n = Len(providers)
                        /\ ~service.tried[n].accepted
                        /\ ~response.success
                        /\ response.results = <<>>
          /\ (service.ret # NoRet /\ service.tried = <<>>) =>
                \/ UsableResponse(service.ret.value)
                \/ providers = <<>> /\ ~service.ret.value.success

\* C34, steps: a call answered at once is answered with a usable response
\* that the cache held for its key, unexpired; the cache gains or renews an entry only when a provider's
\* usable response is returned, under the key of the call; a failed return
\* stores nothing.
NewsCaching ==
    /\ (service'.calls = service.calls + 1 /\ service'.ret # NoRet) =>
          /\ UsableResponse(service'.ret.value)
          /\ \E i \in DOMAIN cache :
                /\ cache[i].key = service'.key
                /\ cache[i].response = service'.ret.value
                /\ cache_clock - cache[i].ts <= CACHE_TTL
    /\ \A j \in DOMAIN cache' :
          (\A i \in DOMAIN cache : cache[i] # cache'[j]) =>
                /\ service.ret = NoRet
                /\ service'.ret = Return(cache'[j].response)
                /\ cache'[j].key = service.key
                /\ UsableResponse(cache'[j].response)
    /\ (service.ret = NoRet /\ service'.ret # NoRet
            /\ ~service'.ret.value.success) => cache' = cache

\* C34: search_stock_news tries the configured providers in the order Bocha,
\* Tavily, Brave, SerpAPI and returns the first response that is successful
\* with results; only such a response is stored in the cache, and when no
\* provider yields one the call returns success = false and stores nothing,
\* so that a failed response is never served from the cache.
C34_NewsFailoverCache == []NewsFailover /\ [][NewsCaching]_vars

\* C34 witness: with Bocha and Brave configured a second call was answered
\* from the cache with the response Brave had delivered after Bocha failed.
C34_Witness ==
    /\ providers = ServiceInit({"Bocha", "Brave"})
    /\ service.op = "search_stock_news"
    /\ service.calls = 2
    /\ service.tried = <<>>
    /\ service.ret # NoRet
    /\ service.ret.value.success
    /\ service.ret.value.provider = "Brave"
    /\ Len(cache) = 1

\* The searches of one search_stock_price_fallback call for template t, as
\* positions of the log.
SearchesFor(t) == {i \in DOMAIN service.tried : service.tried[i].template = t}

\* C39: search_stock_price_fallback returns at most max_results results with
\* pairwise distinct urls; for each keyword template it searches the
\* providers in order and stops at the first that returns a successful
\* response with results; it searches for at most max_attempts templates; and
\* it reports success exactly when at least one result was collected.
C39_PriceFallback ==
    service.op = "search_stock_price_fallback" =>
        /\ \A i \in DOMAIN service.tried :
              LET s == service.tried[i]
                  earlier == {j \in SearchesFor(s.template) : j < i}
              IN
              /\ s.template \in 1..service.max_attempts
              /\ s.provider = providers[Cardinality(earlier) + 1].name
              /\ \A j \in earlier : ~service.tried[j].accepted
              /\ \A j \in DOMAIN service.tried :
                    j < i => service.tried[j].template <= s.template
        /\ Cardinality({service.tried[i].template : i \in DOMAIN service.tried})
              <= service.max_attempts
        /\ service.ret # NoRet =>
              LET response == service.ret.value IN
              /\ service.ret.kind = "return"
              /\ Len(response.results) <= service.max_results
              /\ \A i, j \in DOMAIN response.results :
                    response.results[i].url = response.results[j].url => i = j
              /\ response.success <=>
                    \E i \in DOMAIN service.tried : service.tried[i].accepted
              /\ ~response.success => response.results = <<>>

\* C39 witness: with more attempts allowed than there are templates, three
\* distinct results were collected, one template went to a second provider,
\* and the first two results were returned.
C39_Witness ==
    /\ service.op = "search_stock_price_fallback"
    /\ service.ret # NoRet
    /\ service.ret.value.success
    /\ service.max_attempts = KEYWORD_TEMPLATES + 1
    /\ service.max_results = 2
    /\ Len(service.all_results) = 3
    /\ Len(service.ret.value.results) = 2
    /\ \E i \in DOMAIN service.tried :
          /\ ~service.tried[i].accepted
          /\ i < Len(service.tried)
          /\ service.tried[i + 1].template = service.tried[i].template
          /\ service.tried[i + 1].accepted
    /\ Len(service.tried) > Len(service.all_results) + 1

====
